---- MODULE Spec2Model ----
(***************************************************************************)
(* Model of the execution engine of the backtester (src/engine.py) and of  *)
(* the ledger entities it works on (src/models.py).                        *)
(*                                                                         *)
(* Python floats are modelled as exact rationals [n, d] in lowest terms    *)
(* (d > 0); the value None of an Optional[float] field is the record with  *)
(* d = 0.  Order ids (uuid strings) are the positive integers in creation  *)
(* order; a group_id is an order id, a label chosen by the strategy, or 0  *)
(* for None.  Timestamps are the positions of the bars in the data frame.  *)
(***************************************************************************)
EXTENDS Integers, Sequences, FiniteSets, TLC

\* ------------------------------------------------------------------ bounds
MaxBars == 3
MaxOrders == 2
\* the Order objects a replay may construct in all: brackets and closing orders included
MaxIds == MaxOrders + 1

\* ------------------------------------------------------- exact arithmetic
Abs(x) == IF x < 0 THEN -x ELSE x

RECURSIVE GCD(_, _)
GCD(a, b) == IF b = 0 THEN a ELSE GCD(b, a % b)

R(n, d) == LET g == GCD(Abs(n), d) IN [n |-> n \div g, d |-> d \div g]
I(k) == [n |-> k, d |-> 1]
Zero == I(0)
One == I(1)
None == [n |-> 0, d |-> 0]

IsNone(a) == a.d = 0
\* Python truthiness of an Optional[float]: None and 0.0 are both falsy
Truthy(a) == a.d # 0 /\ a.n # 0

RNeg(a) == [n |-> -a.n, d |-> a.d]
RAbs(a) == [n |-> Abs(a.n), d |-> a.d]
RAdd(a, b) ==
    LET g == GCD(a.d, b.d)
        l == (a.d \div g) * b.d
    IN  R(a.n * (l \div a.d) + b.n * (l \div b.d), l)
RSub(a, b) == RAdd(a, RNeg(b))
RMul(a, b) ==
    IF a.n = 0 \/ b.n = 0 THEN Zero
    ELSE LET g1 == GCD(Abs(a.n), b.d)
             g2 == GCD(Abs(b.n), a.d)
         IN  [n |-> (a.n \div g1) * (b.n \div g2), d |-> (a.d \div g2) * (b.d \div g1)]
RInv(a) == IF a.n > 0 THEN [n |-> a.d, d |-> a.n] ELSE [n |-> -a.d, d |-> -a.n]
\* defined for b # 0 only: Python raises ZeroDivisionError otherwise
RDiv(a, b) == RMul(a, RInv(b))
RSign(a) == IF a.n > 0 THEN 1 ELSE IF a.n < 0 THEN -1 ELSE 0
RLt(a, b) == RSign(RSub(a, b)) < 0
RLe(a, b) == RSign(RSub(a, b)) <= 0
RGt(a, b) == RLt(b, a)
RGe(a, b) == RLe(b, a)
RMin(a, b) == IF RLe(a, b) THEN a ELSE b
RMax(a, b) == IF RGe(a, b) THEN a ELSE b

\* the sum of the values of f over the set S
RECURSIVE SumOver(_, _)
SumOver(f, S) ==
    IF S = {} THEN Zero
    ELSE LET x == CHOOSE y \in S : TRUE IN RAdd(f[x], SumOver(f, S \ {x}))

Last(seq) == seq[Len(seq)]

\* q_epsilon = 1e-9 (engine.py:9)
q_epsilon == [n |-> 1, d |-> 1000000000]
\* |a| < q_epsilon, computed without multiplying by 10^9
BelowEps(a) == Abs(a.n) <= (a.d - 1) \div q_epsilon.d

\* --------------------------------------------------------- ledger entities
Sides == {"LONG", "SHORT", "FLAT"}
OrderTypes == {"MARKET", "LIMIT", "STOP", "STOP_LIMIT"}
Statuses == {"PENDING", "FILLED", "REJECTED", "CANCELLED"}

\* AssetVars(symbol=...) with the dataclass defaults
AssetVars(market_fee_bps, limit_fee_bps) ==
    [position_qty |-> Zero, avg_entry_price |-> Zero, last_price |-> Zero,
     market_fee_bps |-> market_fee_bps, limit_fee_bps |-> limit_fee_bps]

\* the keyword arguments of Order(...) with the dataclass defaults, under the
\* strategy's own label
OrderArgs(symbol, side, order_type) ==
    [strategy_name |-> "MeanRev", symbol |-> symbol, side |-> side, order_type |-> order_type,
     qty |-> Zero, cash_amount |-> Zero, price |-> None,
     stop_price |-> None, limit_price |-> None,
     stop_loss_pct |-> None, limit_pct |-> None,
     stop_qty |-> None, limit_qty |-> None,
     revenge |-> Zero, group_id |-> 0]

\* mutant: a STOP order is not required to carry a price
PostInitRaisesStopUnpriced(a) ==
    \/ a.order_type \in {"LIMIT", "STOP_LIMIT"} /\ IsNone(a.price)
    \/ RLe(a.qty, Zero) /\ RLe(a.cash_amount, Zero)
    \/ RGt(a.qty, Zero) /\ RGt(a.cash_amount, Zero)
    \/ Truthy(a.stop_loss_pct) /\ Truthy(a.stop_price)
    \/ Truthy(a.limit_pct) /\ Truthy(a.limit_price)

\* Order.__post_init__: TRUE iff construction raises ValueError
PostInitRaises(a) ==
    \/ a.order_type \in {"LIMIT", "STOP_LIMIT"} /\ IsNone(a.price)
    \/ a.order_type \in {"STOP", "STOP_LIMIT"} /\ IsNone(a.price)
    \/ RLe(a.qty, Zero) /\ RLe(a.cash_amount, Zero)
    \/ RGt(a.qty, Zero) /\ RGt(a.cash_amount, Zero)
    \/ Truthy(a.stop_loss_pct) /\ Truthy(a.stop_price)
    \/ Truthy(a.limit_pct) /\ Truthy(a.limit_price)

\* the Order object a successful construction yields
Order(id, a) ==
    [id |-> id, strategy_name |-> a.strategy_name,
     symbol |-> a.symbol, side |-> a.side, order_type |-> a.order_type,
     qty |-> a.qty, cash_amount |-> a.cash_amount, price |-> a.price,
     stop_price |-> a.stop_price, limit_price |-> a.limit_price,
     stop_loss_pct |-> a.stop_loss_pct, limit_pct |-> a.limit_pct,
     stop_qty |-> a.stop_qty, limit_qty |-> a.limit_qty,
     revenge |-> a.revenge, group_id |-> a.group_id,
     status |-> "PENDING", created_at |-> 0, filled_at |-> 0, fill_price |-> Zero]

Trade(order, side, qty, price, commission, time, pnl) ==
    [order_id |-> order.id, symbol |-> order.symbol, side |-> side, qty |-> qty,
     price |-> price, commission |-> commission, time |-> time, pnl |-> pnl]

\* ------------------------------------------------------------ Fill Resolver
\* _check_fill: the order as the call leaves it (a cash-sized MARKET order gets
\* its qty) and the fill price, None when the order does not fill on this bar
\* engine.py:92-93, the quantity of a cash-sized MARKET order
MarketQty(order, open_p) == RDiv(order.cash_amount, open_p)

\* mutant: the bar has to trade through the limit price
LimitFillStrict(order, open_p, high_p, low_p) ==
    IF order.side = "LONG" /\ RLt(low_p, order.price) THEN RMin(open_p, order.price)
    ELSE IF order.side = "SHORT" /\ RGt(high_p, order.price) THEN RMax(open_p, order.price)
    ELSE None

\* mutant: a touched limit order fills at the open, whatever its limit
LimitFillAtOpen(order, open_p, high_p, low_p) ==
    IF order.side = "LONG" /\ RLe(low_p, order.price) THEN open_p
    ELSE IF order.side = "SHORT" /\ RGe(high_p, order.price) THEN open_p
    ELSE None

\* engine.py:98-103, the LIMIT rules
LimitFill(order, open_p, high_p, low_p) ==
    IF order.side = "LONG" /\ RLe(low_p, order.price) THEN RMin(open_p, order.price)
    ELSE IF order.side = "SHORT" /\ RGe(high_p, order.price) THEN RMax(open_p, order.price)
    ELSE None

\* mutant: a triggered stop always fills at its stop price, gap or not
StopFillNoGap(order, open_p, high_p, low_p) ==
    IF order.side = "SHORT" /\ (RLt(open_p, order.price) \/ RLe(low_p, order.price)) THEN order.price
    ELSE IF order.side = "LONG" /\ (RGt(open_p, order.price) \/ RGe(high_p, order.price)) THEN order.price
    ELSE None

\* engine.py:105-116, the STOP rules
StopFill(order, open_p, high_p, low_p) ==
    IF order.side = "SHORT" /\ RLt(open_p, order.price) THEN open_p
    ELSE IF order.side = "SHORT" /\ RLe(low_p, order.price) THEN order.price
    ELSE IF order.side = "LONG" /\ RGt(open_p, order.price) THEN open_p
    ELSE IF order.side = "LONG" /\ RGe(high_p, order.price) THEN order.price
    ELSE None

\* mutant: a MARKET order is priced and sized at the bar's high
_check_fill_market_at_high(order, open_p, high_p, low_p) ==
    IF order.order_type = "MARKET"
    THEN [order |-> IF Truthy(order.cash_amount)
                    THEN [order EXCEPT !.qty = MarketQty(order, high_p)]
                    ELSE order,
          price |-> high_p]
    ELSE [order |-> order,
          price |-> IF order.order_type = "LIMIT" THEN LimitFill(order, open_p, high_p, low_p)
                    ELSE IF order.order_type = "STOP" THEN StopFill(order, open_p, high_p, low_p)
                    ELSE None]

\* engine.py:90-118
_check_fill(order, open_p, high_p, low_p) ==
    IF order.order_type = "MARKET"
    THEN [order |-> IF Truthy(order.cash_amount)
                    THEN [order EXCEPT !.qty = MarketQty(order, open_p)]
                    ELSE order,
          price |-> open_p]
    ELSE [order |-> order,
          price |-> IF order.order_type = "LIMIT" THEN LimitFill(order, open_p, high_p, low_p)
                    ELSE IF order.order_type = "STOP" THEN StopFill(order, open_p, high_p, low_p)
                    ELSE None]

\* ---------------------------------------------------------- Accounting Unit
\* An engine is the record of the ExecutionEngine's fields: balance, portfolio
\* (symbol -> AssetVars), orders (id -> Order object, the heap the references in
\* open_orders point into), open_orders (a list of ids), fill_history, next_id
\* (the ids handed out so far), submitted (the ids submit_order was called with)
\* and error (the exception that ended the call, "").

\* mutant: every order kind is charged the market rate
FeeMarketOnly(asset, order, notional) ==
    RMul(notional, RDiv(asset.market_fee_bps, I(10000)))

\* engine.py:130, the commission of a fill
Fee(asset, order, notional) ==
    RMul(notional, IF order.order_type = "LIMIT"
                   THEN RDiv(asset.limit_fee_bps, I(10000))
                   ELSE RDiv(asset.market_fee_bps, I(10000)))

\* mutant: the whole fee is taken for the fee of one share
FeePerShareWhole(order, fee) == fee

FeePerShare(order, fee) == IF RGt(order.qty, Zero) THEN RDiv(fee, order.qty) ELSE Zero

\* mutant: the plain mean of the old average and the fill price
AvgEntrySimple(current_qty, avg_entry_price, fill_qty, price) ==
    RDiv(RAdd(avg_entry_price, price), I(2))

\* engine.py:143-145 and 211-213, the volume-weighted average entry price
AvgEntry(current_qty, avg_entry_price, fill_qty, price) ==
    RDiv(RAdd(RMul(current_qty, avg_entry_price), RMul(fill_qty, price)),
         RAdd(current_qty, fill_qty))

\* mutant: fill price minus entry price, as for a long position
PnlLongFillAsSale(asset, price, qty_closing) == RMul(RSub(price, asset.avg_entry_price), qty_closing)

\* engine.py:160, the realized P&L of a LONG fill closing a short position
PnlLongFill(asset, price, qty_closing) == RMul(RSub(asset.avg_entry_price, price), qty_closing)
\* mutant: entry price minus fill price
PnlShortFillSwapped(asset, price, qty_closing) == RMul(RSub(asset.avg_entry_price, price), qty_closing)

\* engine.py:231, the realized P&L of a SHORT fill closing a long position
PnlShortFill(asset, price, qty_closing) == RMul(RSub(price, asset.avg_entry_price), qty_closing)

\* engine.py:177-178 and 247-248, the epsilon floor on the residual quantity
SnapLongFill(remaining_short) == IF BelowEps(remaining_short) THEN Zero ELSE remaining_short
SnapShortFill(remaining_long) ==
    IF RLt(Zero, remaining_long) /\ BelowEps(remaining_long) THEN Zero ELSE remaining_long

\* mutant: the flipped position keeps the old average entry price
FlippedKeepingAvg(asset, position_qty, price) ==
    [asset EXCEPT !.position_qty = position_qty]

\* engine.py:180-181 and 250-251, the position a flip opens
Flipped(asset, position_qty, price) ==
    [asset EXCEPT !.position_qty = position_qty, !.avg_entry_price = price]

\* engine.py:141-199, the position update of a LONG fill
LongFill(asset, order, price, time, fee, fee_per_share) ==
    IF RGe(asset.position_qty, Zero)
    THEN LET new_qty == RAdd(asset.position_qty, order.qty)
         IN  IF new_qty.n = 0
             THEN [asset |-> asset, trades |-> <<>>, error |-> "ZeroDivisionError"]
             ELSE [asset |-> [asset EXCEPT !.avg_entry_price =
                                               AvgEntry(asset.position_qty, asset.avg_entry_price, order.qty, price),
                                           !.position_qty = new_qty],
                   trades |-> <<Trade(order, "LONG", order.qty, price, fee, time, Zero)>>,
                   error |-> ""]
    ELSE LET qty_closing == RMin(RAbs(asset.position_qty), order.qty)
             pnl == PnlLongFill(asset, price, qty_closing)
             remaining_short == SnapLongFill(RSub(RAbs(asset.position_qty), order.qty))
             closing == Trade(order, "LONG", qty_closing, price, RMul(qty_closing, fee_per_share), time, pnl)
         IN  IF RLt(remaining_short, Zero)
             THEN [asset |-> Flipped(asset, RAbs(remaining_short), price),
                   trades |-> <<closing,
                                Trade(order, "LONG", RAbs(remaining_short), price,
                                      RMul(RAbs(remaining_short), fee_per_share), time, Zero)>>,
                   error |-> ""]
             ELSE IF remaining_short.n = 0
             THEN [asset |-> [asset EXCEPT !.position_qty = Zero, !.avg_entry_price = Zero],
                   trades |-> <<closing>>, error |-> ""]
             ELSE [asset |-> [asset EXCEPT !.position_qty = RAdd(asset.position_qty, order.qty)],
                   trades |-> <<closing>>, error |-> ""]

\* engine.py:206-267, the position update of a SHORT fill
ShortFill(asset, order, price, time, fee, fee_per_share) ==
    IF RLe(asset.position_qty, Zero)
    THEN LET current_qty == RAbs(asset.position_qty)
             fill_qty == order.qty
             new_qty == RAdd(current_qty, fill_qty)
         IN  IF new_qty.n = 0
             THEN [asset |-> asset, trades |-> <<>>, error |-> "ZeroDivisionError"]
             ELSE [asset |-> [asset EXCEPT !.avg_entry_price =
                                               AvgEntry(current_qty, asset.avg_entry_price, fill_qty, price),
                                           !.position_qty = RSub(asset.position_qty, order.qty)],
                   trades |-> <<Trade(order, "SHORT", order.qty, price, fee, time, Zero)>>,
                   error |-> ""]
    ELSE LET qty_closing == RMin(asset.position_qty, order.qty)
             pnl == PnlShortFill(asset, price, qty_closing)
             remaining_long == SnapShortFill(RSub(asset.position_qty, order.qty))
             closing == Trade(order, "SHORT", qty_closing, price, RMul(qty_closing, fee_per_share), time, pnl)
         IN  IF RLt(remaining_long, Zero)
             THEN [asset |-> Flipped(asset, remaining_long, price),
                   trades |-> <<closing,
                                Trade(order, "SHORT", RAbs(remaining_long), price,
                                      RMul(RAbs(remaining_long), fee_per_share), time, Zero)>>,
                   error |-> ""]
             ELSE IF remaining_long.n = 0
             THEN [asset |-> [asset EXCEPT !.position_qty = Zero, !.avg_entry_price = Zero],
                   trades |-> <<closing>>, error |-> ""]
             ELSE [asset |-> [asset EXCEPT !.position_qty = RSub(asset.position_qty, order.qty)],
                   trades |-> <<closing>>, error |-> ""]

\* mutant: a SHORT fill is debited like a purchase
CashAfterFillDebit(balance, side, notional, fee) ==
    IF side = "LONG" THEN RSub(balance, RAdd(notional, fee))
    ELSE IF side = "SHORT" THEN RSub(balance, RAdd(notional, fee))
    ELSE balance

\* engine.py:138-139 and 202-203, the cash effect of a fill
CashAfterFill(balance, side, notional, fee) ==
    IF side = "LONG" THEN RSub(balance, RAdd(notional, fee))
    ELSE IF side = "SHORT" THEN RAdd(balance, RSub(notional, fee))
    ELSE balance

OppositeSide(side) == IF side = "LONG" THEN "SHORT" ELSE "LONG"
\* Python's `a or b` on Optional[float]
Or(a, b) == IF Truthy(a) THEN a ELSE b
GroupOf(order) == IF order.group_id # 0 THEN order.group_id ELSE order.id

\* mutant: the stop child is sized like the parent, revenge ignored
StopChildArgsNoRevenge(order, price) ==
    LET stop_side == OppositeSide(order.side)
        sl_price == IF Truthy(order.stop_price) THEN order.stop_price
                    ELSE IF stop_side = "SHORT" THEN RMul(price, RSub(One, order.stop_loss_pct))
                    ELSE RMul(price, RAdd(One, order.stop_loss_pct))
    IN  [OrderArgs(order.symbol, stop_side, "STOP") EXCEPT
            !.price = sl_price,
            !.qty = Or(order.stop_qty, order.qty),
            !.group_id = GroupOf(order),
            !.strategy_name = order.strategy_name]

\* engine.py:278-298, the arguments of the bracket STOP child
StopChildArgs(order, price) ==
    LET stop_side == OppositeSide(order.side)
        sl_price == IF Truthy(order.stop_price) THEN order.stop_price
                    ELSE IF stop_side = "SHORT" THEN RMul(price, RSub(One, order.stop_loss_pct))
                    ELSE RMul(price, RAdd(One, order.stop_loss_pct))
    IN  [OrderArgs(order.symbol, stop_side, "STOP") EXCEPT
            !.price = sl_price,
            !.qty = Or(order.stop_qty, RMul(order.qty, RAdd(One, order.revenge))),
            !.group_id = GroupOf(order),
            !.strategy_name = order.strategy_name]

\* mutant: the take-profit is placed on the stop's side of the fill price
LimitChildArgsWrongWay(order, price) ==
    LET limit_side == OppositeSide(order.side)
        limit_price == IF Truthy(order.limit_price) THEN order.limit_price
                       ELSE IF limit_side = "SHORT" THEN RMul(price, RSub(One, order.limit_pct))
                       ELSE RMul(price, RAdd(One, order.limit_pct))
    IN  [OrderArgs(order.symbol, limit_side, "LIMIT") EXCEPT
            !.price = limit_price,
            !.qty = Or(order.limit_qty, order.qty),
            !.group_id = GroupOf(order),
            !.strategy_name = order.strategy_name]

\* engine.py:304-323, the arguments of the bracket LIMIT child
LimitChildArgs(order, price) ==
    LET limit_side == OppositeSide(order.side)
        limit_price == IF Truthy(order.limit_price) THEN order.limit_price
                       ELSE IF limit_side = "SHORT" THEN RMul(price, RAdd(One, order.limit_pct))
                       ELSE RMul(price, RSub(One, order.limit_pct))
    IN  [OrderArgs(order.symbol, limit_side, "LIMIT") EXCEPT
            !.price = limit_price,
            !.qty = Or(order.limit_qty, order.qty),
            !.group_id = GroupOf(order),
            !.strategy_name = order.strategy_name]

\* construct a bracket child, stamp it and append it to open_orders; a failing
\* construction raises ValueError out of _execute_fill
SpawnChild(e, args, time) ==
    IF e.error # "" THEN e
    ELSE IF PostInitRaises(args) THEN [e EXCEPT !.error = "ValueError"]
    ELSE LET id == e.next_id + 1
         IN  [e EXCEPT !.next_id = id,
                       !.orders = (id :> [Order(id, args) EXCEPT !.created_at = time]) @@ e.orders,
                       !.open_orders = Append(e.open_orders, id)]

\* engine.py:278-302
SpawnStop(e, order, price, time) ==
    IF Truthy(order.stop_price) \/ Truthy(order.stop_loss_pct)
    THEN SpawnChild(e, StopChildArgs(order, price), time) ELSE e

\* engine.py:304-327
SpawnLimit(e, order, price, time) ==
    IF e.error = "" /\ (Truthy(order.limit_price) \/ Truthy(order.limit_pct))
    THEN SpawnChild(e, LimitChildArgs(order, price), time) ELSE e

\* mutant: the take-profit child is made and appended before the stop child
SpawnBracketsLimitFirst(e, order, price, time) ==
    SpawnStop(SpawnLimit(e, order, price, time), order, price, time)

\* engine.py:278-327
SpawnBrackets(e, order, price, time) ==
    SpawnLimit(SpawnStop(e, order, price, time), order, price, time)

\* mutant: every fill is taken into the position as a purchase
PositionUpdateAsPurchase(asset, order, price, time, fee) ==
    LongFill(asset, order, price, time, fee, FeePerShare(order, fee))

\* engine.py:138-267, the position update and the trades of a fill
PositionUpdate(asset, order, price, time, fee) ==
    IF order.side = "LONG" THEN LongFill(asset, order, price, time, fee, FeePerShare(order, fee))
    ELSE IF order.side = "SHORT" THEN ShortFill(asset, order, price, time, fee, FeePerShare(order, fee))
    ELSE [asset |-> asset, trades |-> <<>>, error |-> ""]

\* engine.py:272-274
Filled(order, price, time) ==
    [order EXCEPT !.status = "FILLED", !.filled_at = time, !.fill_price = price]

\* engine.py:138-327 given the notional, the fee and the position update: the
\* cash effect comes first, a ZeroDivisionError in the update ends the call
\* before the order is settled
Settle(e, order, price, time, notional, fee, upd) ==
    IF upd.error # ""
    THEN [e EXCEPT !.balance = CashAfterFill(e.balance, order.side, notional, fee),
                   !.orders[order.id] = order,
                   !.error = upd.error]
    ELSE SpawnBrackets([e EXCEPT !.balance = CashAfterFill(e.balance, order.side, notional, fee),
                                 !.portfolio[order.symbol] = upd.asset,
                                 !.orders[order.id] = Filled(order, price, time),
                                 !.fill_history = e.fill_history \o upd.trades],
                       Filled(order, price, time), price, time)

\* engine.py:130-327 given the asset and the notional
Charge(e, order, price, time, asset, notional, fee) ==
    Settle(e, order, price, time, notional, fee, PositionUpdate(asset, order, price, time, fee))

\* engine.py:128-327 given the asset and the notional
Account(e, order, price, time, asset, notional) ==
    Charge(e, order, price, time, asset, notional, Fee(asset, order, notional))

\* _execute_fill(order, price, time); order is the object as _check_fill left it
_execute_fill(e, order, price, time) ==
    Account(e, order, price, time, e.portfolio[order.symbol], RMul(order.qty, price))

\* _cancel_group
_cancel_group(e, group_id) ==
    [e EXCEPT !.orders = [id \in DOMAIN e.orders |->
        IF /\ \E k \in 1..Len(e.open_orders) : e.open_orders[k] = id
           /\ e.orders[id].group_id = group_id
           /\ e.orders[id].status = "PENDING"
        THEN [e.orders[id] EXCEPT !.status = "CANCELLED"]
        ELSE e.orders[id]]]

\* mutant: the record given replaces the one the portfolio holds
register_asset_overwriting(e, symbol, asset) ==
    [e EXCEPT !.portfolio = (symbol :> asset) @@ e.portfolio,
              !.portfolio_keys = IF symbol \in DOMAIN e.portfolio THEN e.portfolio_keys
                                 ELSE Append(e.portfolio_keys, symbol)]

\* register_asset(asset), with symbol = asset.symbol
register_asset(e, symbol, asset) ==
    IF symbol \in DOMAIN e.portfolio THEN e
    ELSE [e EXCEPT !.portfolio = (symbol :> asset) @@ e.portfolio,
                   !.portfolio_keys = Append(e.portfolio_keys, symbol)]

\* mutant: the purge drops the cancelled orders and keeps the filled ones
cleanup_orders_keeping_filled(e) ==
    [e EXCEPT !.open_orders = SelectSeq(e.open_orders, LAMBDA id : e.orders[id].status # "CANCELLED")]

\* cleanup_orders
cleanup_orders(e) ==
    [e EXCEPT !.open_orders = SelectSeq(e.open_orders, LAMBDA id : e.orders[id].status = "PENDING")]

RECURSIVE MarketValue(_, _)
MarketValue(portfolio, syms) ==
    IF syms = {} THEN Zero
    ELSE LET s == CHOOSE x \in syms : TRUE
             asset == portfolio[s]
         IN  RAdd(IF asset.position_qty.n # 0 THEN RMul(asset.position_qty, asset.last_price) ELSE Zero,
                  MarketValue(portfolio, syms \ {s}))

\* mutant: positions valued at their average entry price, not at the mark
get_equity_at_cost(e) ==
    RAdd(e.balance, SumOver([s \in DOMAIN e.portfolio |->
                                RMul(e.portfolio[s].position_qty, e.portfolio[s].avg_entry_price)],
                            DOMAIN e.portfolio))

\* get_equity
get_equity(e) == RAdd(e.balance, MarketValue(e.portfolio, DOMAIN e.portfolio))

\* get_available_funds, engine.py:338-341: the loop over self.portfolio.items()
RECURSIVE Debt(_, _)
Debt(e, keys) ==
    IF keys = <<>> THEN Zero
    ELSE LET a == e.portfolio[Last(keys)]
         IN  RAdd(Debt(e, SubSeq(keys, 1, Len(keys) - 1)),
                  IF RLt(a.position_qty, Zero)
                  THEN RMul(a.avg_entry_price, RAbs(a.position_qty)) ELSE Zero)

\* mutant: the short positions are valued at their mark
get_available_funds_at_mark(e) ==
    RMul(RDiv(One, I(e.margin)),
         RSub(e.balance,
              RMul(I(2), SumOver([s \in DOMAIN e.portfolio |->
                                    IF RLt(e.portfolio[s].position_qty, Zero)
                                    THEN RMul(e.portfolio[s].last_price, RAbs(e.portfolio[s].position_qty))
                                    ELSE Zero], DOMAIN e.portfolio))))

\* get_available_funds
get_available_funds(e) ==
    RMul(RDiv(One, I(e.margin)), RSub(e.balance, RMul(I(2), Debt(e, e.portfolio_keys))))

\* submit_order(orders, current_time), orders a list of ids of Order objects
RECURSIVE submit_order(_, _, _)
submit_order(e, ids, current_time) ==
    IF ids = <<>> THEN e
    ELSE submit_order([e EXCEPT !.orders[Head(ids)].created_at = current_time,
                                !.orders[Head(ids)].status = "PENDING",
                                !.open_orders = Append(e.open_orders, Head(ids)),
                                !.submitted = e.submitted \cup {Head(ids)}],
                      Tail(ids), current_time)

\* cancel_all_orders
cancel_all_orders(e) ==
    [e EXCEPT !.orders = [id \in DOMAIN e.orders |->
                            IF \E k \in 1..Len(e.open_orders) : e.open_orders[k] = id
                            THEN [e.orders[id] EXCEPT !.status = "CANCELLED"]
                            ELSE e.orders[id]],
              !.open_orders = <<>>]

\* mutant: the closing order is placed on the side of the position
RECURSIVE CloseOrdersOnSameSide(_, _)
CloseOrdersOnSameSide(e, targets) ==
    IF targets = <<>> THEN e
    ELSE LET sym == Head(targets)
             qty == e.portfolio[sym].position_qty
             id == e.next_id + 1
             args == [OrderArgs(sym, IF RGt(qty, Zero) THEN "LONG" ELSE "SHORT", "MARKET")
                        EXCEPT !.qty = RAbs(qty), !.strategy_name = "flatten"]
         IN  IF sym \notin DOMAIN e.portfolio \/ BelowEps(qty)
             THEN CloseOrdersOnSameSide(e, Tail(targets))
             ELSE CloseOrdersOnSameSide([e EXCEPT !.next_id = id,
                                                  !.orders = (id :> Order(id, args)) @@ e.orders],
                                        Tail(targets))

\* engine.py:361-382, the closing orders flatten constructs, in target order
RECURSIVE CloseOrders(_, _)
CloseOrders(e, targets) ==
    IF targets = <<>> THEN e
    ELSE LET sym == Head(targets)
             qty == e.portfolio[sym].position_qty
             id == e.next_id + 1
             args == [OrderArgs(sym, IF RGt(qty, Zero) THEN "SHORT" ELSE "LONG", "MARKET")
                        EXCEPT !.qty = RAbs(qty), !.strategy_name = "flatten"]
         IN  IF sym \notin DOMAIN e.portfolio \/ BelowEps(qty)
             THEN CloseOrders(e, Tail(targets))
             ELSE CloseOrders([e EXCEPT !.next_id = id,
                                        !.orders = (id :> Order(id, args)) @@ e.orders],
                              Tail(targets))

InSeq(x, seq) == \E k \in 1..Len(seq) : seq[k] = x

\* mutant: flatten leaves the open orders on the targets in the book
CancelTargetsSkipped(e, targets) == e

\* engine.py:355-359, flatten's cancellation of the open orders on the targets
CancelTargets(e, targets) ==
    [e EXCEPT !.orders = [id \in DOMAIN e.orders |->
                            IF InSeq(id, e.open_orders) /\ InSeq(e.orders[id].symbol, targets)
                            THEN [e.orders[id] EXCEPT !.status = "CANCELLED"]
                            ELSE e.orders[id]],
              !.open_orders = SelectSeq(e.open_orders,
                                        LAMBDA id : ~InSeq(e.orders[id].symbol, targets))]

\* engine.py:384-385, the closing orders are the objects constructed since `before`
SubmitClosing(e, before, current_time) ==
    submit_order(e, [k \in 1..(e.next_id - before) |-> before + k], current_time)

FlattenTargets(e, current_time, targets) ==
    SubmitClosing(CloseOrders(CancelTargets(e, targets), targets), e.next_id, current_time)

\* mutant: the symbols argument is ignored and every symbol is flattened
flatten_every_symbol(e, current_time, symbols) ==
    FlattenTargets(e, current_time, e.portfolio_keys)

\* flatten(current_time, symbols); symbols = <<"None">> stands for symbols=None
flatten(e, current_time, symbols) ==
    FlattenTargets(e, current_time, IF symbols = <<"None">> THEN e.portfolio_keys ELSE symbols)

\* ------------------------------------------------------------------- inputs
Symbols == {"X", "Y"}

Bar(sym, o, h, l, c) ==
    [symbol |-> sym, open |-> I(o), high |-> I(h), low |-> I(l), close |-> I(c)]
\* the bars the data provider may supply to run
RunBars == {Bar("X", 100, 110, 90, 105), Bar("X", 110, 120, 110, 120),
            Bar("Y", 110, 120, 110, 120)}

\* the label a strategy may give as group_id to tie orders into an OCO group
StrategyGroup == 101

Qty(a, q) == [a EXCEPT !.qty = I(q)]
\* the orders the strategy of the replay may ask for
OrderMenu ==
    { [Qty(OrderArgs("X", "LONG", "MARKET"), 1) EXCEPT !.stop_loss_pct = R(1, 20), !.limit_pct = R(1, 10)],
      [Qty(OrderArgs("X", "LONG", "LIMIT"), 1) EXCEPT !.price = I(95), !.group_id = StrategyGroup],
      Qty(OrderArgs("Y", "SHORT", "MARKET"), 1),
      [Qty(OrderArgs("Y", "SHORT", "LIMIT"), 1) EXCEPT !.price = I(115), !.group_id = StrategyGroup] }

\* a strategy trading one zero-fee symbol at the market
TradeBars == {Bar("Y", 100, 110, 90, 105), Bar("Y", 110, 120, 110, 120), Bar("Y", 90, 95, 80, 80)}
TradeMenu ==
    { Qty(OrderArgs("Y", "LONG", "MARKET"), 1), Qty(OrderArgs("Y", "LONG", "MARKET"), 2),
      Qty(OrderArgs("Y", "SHORT", "MARKET"), 1), Qty(OrderArgs("Y", "SHORT", "MARKET"), 2) }

\* a book of orders submitted before run starts, replayed with a strategy that
\* submits nothing, on an engine whose portfolio holds an open position
ReplayBars == {Bar("X", 100, 110, 90, 105), Bar("X", 110, 120, 110, 120), Bar("X", 90, 95, 80, 80)}
Priced(a, p) == [a EXCEPT !.price = I(p)]
PlainMenu ==
    { Qty(OrderArgs("X", "LONG", "MARKET"), 1), Qty(OrderArgs("X", "LONG", "MARKET"), 2),
      Qty(OrderArgs("X", "SHORT", "MARKET"), 1), Qty(OrderArgs("X", "SHORT", "MARKET"), 2),
      Priced(Qty(OrderArgs("X", "LONG", "LIMIT"), 1), 95),
      Priced(Qty(OrderArgs("X", "SHORT", "LIMIT"), 2), 105) }
BookMenu ==
    PlainMenu \cup
    { [OrderArgs("X", "LONG", "MARKET") EXCEPT !.cash_amount = I(1000)],
      [OrderArgs("X", "SHORT", "MARKET") EXCEPT !.cash_amount = I(330)],
      Priced(Qty(OrderArgs("X", "LONG", "LIMIT"), 2), 110),
      Priced(Qty(OrderArgs("X", "SHORT", "LIMIT"), 1), 95),
      Priced(Qty(OrderArgs("X", "SHORT", "STOP"), 1), 95),
      Priced(Qty(OrderArgs("X", "LONG", "STOP"), 1), 105),
      Priced(Qty(OrderArgs("X", "SHORT", "STOP"), 1), 90),
      Priced(Qty(OrderArgs("X", "LONG", "STOP"), 2), 110),
      Priced(Qty(OrderArgs("X", "LONG", "STOP_LIMIT"), 1), 105),
      [Qty(OrderArgs("X", "LONG", "MARKET"), 1) EXCEPT !.stop_price = I(95), !.limit_price = I(115)],
      [Qty(OrderArgs("X", "SHORT", "MARKET"), 1) EXCEPT !.stop_loss_pct = R(1, 20), !.limit_pct = R(1, 10),
                                                        !.group_id = StrategyGroup] }
\* bracket parents: percentage and explicit directives, overriding child
\* quantities, revenge, a cash-sized parent and a LIMIT parent
BracketMenu ==
    { [Qty(OrderArgs("X", "LONG", "MARKET"), 1) EXCEPT !.stop_loss_pct = R(1, 20), !.revenge = One],
      [Qty(OrderArgs("X", "SHORT", "MARKET"), 2) EXCEPT !.stop_price = I(115), !.stop_qty = One,
                                                        !.limit_price = I(85), !.limit_qty = One],
      [Qty(OrderArgs("X", "SHORT", "MARKET"), 1) EXCEPT !.stop_loss_pct = R(1, 20), !.limit_pct = R(1, 10)],
      [Priced(Qty(OrderArgs("X", "LONG", "LIMIT"), 1), 95) EXCEPT !.stop_loss_pct = R(1, 20),
                                                                  !.limit_pct = R(1, 10)],
      [OrderArgs("X", "LONG", "MARKET") EXCEPT !.cash_amount = I(1000), !.stop_loss_pct = R(1, 20),
                                               !.limit_pct = R(1, 10)] }
Books == {<<a>> : a \in BookMenu \cup BracketMenu} \cup {<<a, b>> : a \in PlainMenu, b \in PlainMenu}
\* the positions (quantity, average entry price) the portfolio may start with
Positions == {<<0, 0>>, <<1, 100>>, <<2, 100>>, <<-1, 100>>, <<-2, 100>>}

\* a strategy that holds positions on two symbols, works resting and market
\* orders on them and flattens
FlattenBars == {Bar("X", 100, 110, 90, 105), Bar("Y", 110, 120, 110, 120)}
FlattenMenu ==
    { Priced(Qty(OrderArgs("X", "SHORT", "LIMIT"), 1), 105),
      Priced(Qty(OrderArgs("Y", "SHORT", "LIMIT"), 1), 115) }
HoldingsX == {<<3, 100>>, <<-2, 100>>}
HoldingsY == {<<0, 0>>, <<-2, 100>>}

\* a strategy that sells short and buys on two symbols and sizes its orders by
\* the available funds; the margin divisors the engine may be built with
FundsMenu ==
    { Qty(OrderArgs("X", "SHORT", "MARKET"), 1), Qty(OrderArgs("Y", "SHORT", "MARKET"), 2),
      Qty(OrderArgs("Y", "LONG", "MARKET"), 3) }
Margins == {1, 2}

\* the keyword arguments a caller may construct an Order from
ArgSpace ==
    { [OrderArgs("X", "LONG", k) EXCEPT !.price = p, !.qty = q, !.cash_amount = c,
                                        !.stop_price = sp, !.stop_loss_pct = sl,
                                        !.limit_price = lp, !.limit_pct = ll] :
        k \in OrderTypes, p \in {None, Zero, I(95)},
        q \in {I(-1), Zero, One}, c \in {I(-100), Zero, I(100)},
        sp \in {None, Zero, I(95)}, sl \in {None, Zero, R(1, 20)},
        lp \in {None, Zero, I(105)}, ll \in {None, Zero, R(1, 10)} }

\* orders that construct successfully and are sized by a cash amount on a
\* resting kind, or carry a revenge multiplier of -1
CashBooks ==
    { <<[Priced(OrderArgs("X", "LONG", "LIMIT"), 95) EXCEPT !.cash_amount = I(1000)]>>,
      <<[Priced(OrderArgs("X", "SHORT", "STOP"), 95) EXCEPT !.cash_amount = I(330)]>>,
      <<[Qty(OrderArgs("X", "LONG", "MARKET"), 1) EXCEPT !.stop_loss_pct = R(1, 20), !.revenge = I(-1)]>>,
      <<Qty(OrderArgs("X", "SHORT", "MARKET"), 1),
        [Priced(OrderArgs("X", "LONG", "LIMIT"), 95) EXCEPT !.cash_amount = I(1000)]>> }

\* a strategy that places an order on one symbol, cancels, and places again;
\* Side has a third member, FLAT, which Order accepts like the other two
ResubmitBars == {Bar("Y", 100, 110, 90, 105), Bar("Y", 110, 120, 110, 120)}
ResubmitMenu == { Qty(OrderArgs("Y", "LONG", "MARKET"), 1),
                  Qty(OrderArgs("Y", "FLAT", "MARKET"), 1) }

\* orders that close a position of 1 to within half of q_epsilon, on bars of a
\* zero-fee symbol that opens and closes at 1
DustBars == {Bar("Y", 1, 1, 1, 1), Bar("Y", 1, 2, 1, 1)}
DustQtys == {One, R(2000000001, 2000000000), R(1999999999, 2000000000)}
\* the book that closes the position pos with one MARKET order of quantity q
DustBook(pos, q) ==
    <<[OrderArgs("Y", IF pos[1] > 0 THEN "SHORT" ELSE "LONG", "MARKET") EXCEPT !.qty = q]>>
DustPositions == {<<1, 1>>, <<-1, 1>>, <<1, 2>>, <<-1, 2>>}

\* orders that reduce, close, close to within half of q_epsilon, or flip a
\* position of 1/4 on a symbol charging 100% on MARKET and 200% on LIMIT
\* fills, rates at which the exact arithmetic of a fill of 1/4 + 5e-10 stays
\* within 32-bit integers
ProrateQtys == {R(1, 8), R(1, 4), R(1, 2), R(500000001, 2000000000), R(499999999, 2000000000)}
ProratePositions == {<<1, 1>>, <<-1, 1>>, <<1, 2>>, <<-1, 2>>}
ProrateKinds == {"MARKET", "LIMIT"}
\* the order of quantity q and the given kind against the position pos
ProrateOrder(pos, q, kind) ==
    [OrderArgs("Y", IF pos[1] > 0 THEN "SHORT" ELSE "LONG", kind)
        EXCEPT !.qty = q, !.price = IF kind = "LIMIT" THEN One ELSE None]

\* books of resting orders that most bars leave unmatched: STOP_LIMIT orders,
\* alone, beside a MARKET order and in an OCO group; a far LIMIT order in an OCO
\* group with a MARKET order; a far LIMIT and a far STOP order
PendingBooks ==
    { <<Priced(Qty(OrderArgs("X", "LONG", "STOP_LIMIT"), 1), 105)>>,
      <<Priced(Qty(OrderArgs("X", "LONG", "STOP_LIMIT"), 1), 105), Qty(OrderArgs("X", "LONG", "MARKET"), 1)>>,
      <<[Priced(Qty(OrderArgs("X", "SHORT", "STOP_LIMIT"), 1), 95) EXCEPT !.group_id = StrategyGroup],
        [Priced(Qty(OrderArgs("X", "LONG", "LIMIT"), 1), 95) EXCEPT !.group_id = StrategyGroup]>>,
      <<[Priced(Qty(OrderArgs("X", "LONG", "LIMIT"), 1), 85) EXCEPT !.group_id = StrategyGroup],
        [Qty(OrderArgs("X", "SHORT", "MARKET"), 1) EXCEPT !.group_id = StrategyGroup]>>,
      <<Priced(Qty(OrderArgs("X", "LONG", "LIMIT"), 1), 85),
        Priced(Qty(OrderArgs("X", "SHORT", "STOP"), 1), 85)>> }

\* a strategy that places bracket parents on a symbol whose bars fill the
\* parent and, on the same bar, one of its children
LiveBars == {Bar("X", 100, 110, 90, 105), Bar("X", 110, 120, 110, 120)}
LiveMenu ==
    { [Qty(OrderArgs("X", "LONG", "MARKET"), 1) EXCEPT !.stop_loss_pct = R(1, 20), !.limit_pct = R(1, 10)],
      Priced(Qty(OrderArgs("X", "SHORT", "LIMIT"), 1), 115) }

\* bars on which a bracket's children rest after the parent's fill at 110 and
\* are both within the range of a later bar, or are both within the range of
\* the bar that fills the parent at 100
OcoBars == {Bar("X", 110, 120, 110, 120), Bar("X", 100, 125, 90, 105)}

\* the rows process_bar may be handed: it takes open, high and low from the
\* row as they are, so the three are any prices of a grid, ordered or not
BarSpace == {Bar("X", o, h, l, o) : o \in {90, 100, 110}, h \in {90, 100, 110}, l \in {90, 100, 110}}
\* the orders _check_fill may be handed: every kind on both sides, priced
\* below, at, between and above the prices of the grid, and cash-sized MARKET
\* orders
ResolveMenu ==
    { Qty(OrderArgs("X", s, "MARKET"), 1) : s \in {"LONG", "SHORT"} } \cup
    { [OrderArgs("X", s, "MARKET") EXCEPT !.cash_amount = I(990)] : s \in {"LONG", "SHORT"} } \cup
    { Priced(Qty(OrderArgs("X", s, k), 1), p) :
        s \in {"LONG", "SHORT"}, k \in {"LIMIT", "STOP", "STOP_LIMIT"},
        p \in {80, 90, 95, 100, 105, 110, 120} }

\* the AssetVars records a caller may hand to register_asset
RegisterAssets ==
    { AssetVars(Zero, Zero),
      [AssetVars(I(10), I(4)) EXCEPT !.position_qty = I(3), !.avg_entry_price = I(50)] }

\* the symbols arguments the strategy may give to flatten
TargetLists == {<<"None">>, <<"X">>, <<"Y">>}

\* -------------------------------------------------------------------- state
VARIABLES
    balance,        \* self.balance
    portfolio,      \* self.portfolio: symbol -> AssetVars
    portfolio_keys, \* the insertion order of self.portfolio's keys
    orders,         \* the Order objects ever constructed, by id
    open_orders,    \* self.open_orders, as ids
    fill_history,   \* self.fill_history
    equity_curve,   \* self.equity_curve
    equity,         \* self.equity
    next_id,        \* the number of Order objects constructed so far
    submitted,      \* history: the ids of the orders passed to submit_order
    error,          \* the exception that ended run, "" if none
    pc,             \* where run is: "fetch", "process_bar", "on_bar"
    i,              \* process_bar's position in its loop over open_orders, 0 outside it
    row,            \* the bar of the current iteration of run
    call,           \* the strategy's latest call in the current callback, NoCall if none
    margin,         \* self.margin
    peer            \* a second ExecutionEngine of the same process

vars == <<balance, portfolio, portfolio_keys, orders, open_orders, fill_history,
          equity_curve, equity, next_id, submitted, error, pc, i, row, call, margin, peer>>

Eng == [balance |-> balance, portfolio |-> portfolio, portfolio_keys |-> portfolio_keys,
        orders |-> orders, open_orders |-> open_orders, fill_history |-> fill_history,
        next_id |-> next_id, submitted |-> submitted, error |-> error, margin |-> margin]

SetEng(e) ==
    /\ balance' = e.balance
    /\ portfolio' = e.portfolio
    /\ portfolio_keys' = e.portfolio_keys
    /\ orders' = e.orders
    /\ open_orders' = e.open_orders
    /\ fill_history' = e.fill_history
    /\ next_id' = e.next_id
    /\ submitted' = e.submitted
    /\ error' = e.error

\* ExecutionEngine(initial_balance=10000.0, portfolio={"X": AssetVars("X", 5, 2)})
initial_balance == 10000
NoRow == [time |-> 0, symbol |-> "", open |-> Zero, high |-> Zero, low |-> Zero, close |-> Zero]
\* a call of the strategy: the method, flatten's symbols, the Order arguments,
\* the value returned
NoCall == [op |-> "", symbols |-> <<>>, args |-> OrderArgs("", "", ""), ret |-> None]
Call(op) == [NoCall EXCEPT !.op = op]
\* the portfolio argument's default, engine.py:12: the dict made when the def ran
EmptyPortfolio == [s \in {} |-> AssetVars(Zero, Zero)]
\* the second engine: aliased when both engines took the default portfolio
\* argument, so that self.portfolio of both is that one dict
Peer(aliased, own) == [aliased |-> aliased, portfolio |-> own, open_orders |-> <<>>]

Init ==
    /\ balance = I(initial_balance)
    /\ equity = I(initial_balance)
    /\ portfolio = ("X" :> AssetVars(I(5), I(2)))
    /\ portfolio_keys = <<"X">>
    /\ orders = <<>>
    /\ open_orders = <<>>
    /\ fill_history = <<>>
    /\ equity_curve = <<>>
    /\ next_id = 0
    /\ submitted = {}
    /\ error = ""
    /\ pc = "fetch"
    /\ i = 0
    /\ row = NoRow
    /\ call = NoCall
    /\ margin = 1
    /\ peer = Peer(FALSE, EmptyPortfolio)

\* --------------------------------------------------------------- Replay Loop
\* mutant: the strategy is shown the bar before the engine processes it
RunOrderStrategyFirst == <<"on_bar", "process_bar">>

\* the order in which the body of run's loop calls its two steps
RunOrder == <<"process_bar", "on_bar">>
\* mutant: the loop goes on to the next row without calling the strategy
AfterSkippingCallback(step) == "fetch"

After(step) == IF step = RunOrder[1] THEN RunOrder[2] ELSE "fetch"

\* run, line 41: the loop takes the next row of the data frame
FetchRow(bars) ==
    /\ pc = "fetch" /\ error = ""
    /\ Len(equity_curve) < MaxBars
    /\ \E b \in bars :
         row' = [time |-> row.time + 1, symbol |-> b.symbol, open |-> b.open,
                 high |-> b.high, low |-> b.low, close |-> b.close]
    /\ pc' = RunOrder[1]
    /\ UNCHANGED <<balance, portfolio, portfolio_keys, orders, open_orders, fill_history,
                   equity_curve, equity, next_id, submitted, error, i, call, margin, peer>>

\* process_bar, lines 47-60: lazy registration and mark
ProcessBarEnter ==
    /\ pc = "process_bar" /\ i = 0
    /\ LET registered == IF row.symbol \in DOMAIN portfolio THEN portfolio
                         ELSE (row.symbol :> AssetVars(Zero, Zero)) @@ portfolio
       IN  portfolio' = [registered EXCEPT ![row.symbol].last_price = row.close]
    /\ portfolio_keys' = IF row.symbol \in DOMAIN portfolio THEN portfolio_keys
                         ELSE Append(portfolio_keys, row.symbol)
    /\ i' = 1
    /\ UNCHANGED <<balance, orders, open_orders, fill_history, equity_curve, equity,
                   next_id, submitted, error, pc, row, call, margin, peer>>

\* process_bar, lines 63-75: one iteration of the loop over self.open_orders
CancelSiblings(e, group_id) ==
    IF e.error = "" /\ group_id # 0 THEN _cancel_group(e, group_id) ELSE e

\* mutant: an order the bar does not match is cancelled
ResolvedCancellingUnmatched(e, order, cf) ==
    IF IsNone(cf.price) THEN [e EXCEPT !.orders[order.id] = [cf.order EXCEPT !.status = "CANCELLED"]]
    ELSE CancelSiblings(_execute_fill(e, cf.order, cf.price, row.time), order.group_id)

Resolved(e, order, cf) ==
    IF IsNone(cf.price) THEN [e EXCEPT !.orders[order.id] = cf.order]
    ELSE CancelSiblings(_execute_fill(e, cf.order, cf.price, row.time), order.group_id)

\* mutant: the loop examines the PENDING orders of every symbol
OrderStepAnySymbol(e, order) ==
    IF order.status # "PENDING" THEN e
    ELSE Resolved(e, order, _check_fill(order, row.open, row.high, row.low))

OrderStep(e, order) ==
    IF order.symbol # row.symbol \/ order.status # "PENDING" THEN e
    ELSE Resolved(e, order, _check_fill(order, row.open, row.high, row.low))

\* an exception leaves process_bar and run
SetEngOrRaise(e) ==
    /\ SetEng(e)
    /\ pc' = IF e.error = "" THEN pc ELSE "raised"

ProcessBarOrder ==
    /\ pc = "process_bar" /\ i >= 1 /\ i <= Len(open_orders)
    /\ SetEngOrRaise(OrderStep(Eng, orders[open_orders[i]]))
    /\ i' = i + 1
    /\ UNCHANGED <<equity_curve, equity, row, call, margin, peer>>

\* mutant: process_bar starts over when its loop reaches the end
ProcessBarExitStartingOver ==
    /\ pc = "process_bar" /\ i = Len(open_orders) + 1
    /\ i' = 0
    /\ UNCHANGED <<balance, portfolio, portfolio_keys, orders, open_orders, fill_history,
                   equity_curve, equity, next_id, submitted, error, pc, row, call, margin, peer>>

\* process_bar, lines 86-88: equity snapshot and purge
ProcessBarExit ==
    /\ pc = "process_bar" /\ i = Len(open_orders) + 1
    /\ equity' = get_equity(Eng)
    /\ equity_curve' = Append(equity_curve, [time |-> row.time, equity |-> get_equity(Eng)])
    /\ open_orders' = cleanup_orders(Eng).open_orders
    /\ pc' = After("process_bar")
    /\ i' = 0
    /\ UNCHANGED <<balance, portfolio, portfolio_keys, orders, fill_history, next_id,
                   submitted, error, row, call, margin, peer>>

\* ------------------------------------------------- the Strategy's callback
\* strategy.on_bar constructs an order and submits it with the bar's timestamp
SubmitOrder(menu) ==
    /\ pc = "on_bar" /\ next_id < MaxOrders
    /\ \E args \in menu :
         /\ ~PostInitRaises(args)
         /\ LET id == next_id + 1
                e == [Eng EXCEPT !.next_id = id, !.orders = (id :> Order(id, args)) @@ orders]
            IN  /\ SetEng(submit_order(e, <<id>>, row.time))
                /\ call' = [Call("submit_order") EXCEPT !.args = args]
    /\ UNCHANGED <<equity_curve, equity, pc, i, row, margin, peer>>

SetEngWithin(e, ids) ==
    /\ e.next_id <= ids
    /\ SetEng(e)

Flatten ==
    /\ pc = "on_bar"
    /\ \E symbols \in TargetLists :
         /\ SetEngWithin(flatten(Eng, row.time, symbols), MaxIds)
         /\ call' = [Call("flatten") EXCEPT !.symbols = symbols]
    /\ UNCHANGED <<equity_curve, equity, pc, i, row, margin, peer>>

\* the strategy calls flatten again, with the symbols of the call it has just
\* made, before its callback returns
FlattenAgain ==
    /\ pc = "on_bar" /\ call.op = "flatten"
    /\ SetEngWithin(flatten(Eng, row.time, call.symbols), MaxIds + 1)
    /\ UNCHANGED <<equity_curve, equity, pc, i, row, call, margin, peer>>

CancelAllOrders ==
    /\ pc = "on_bar"
    /\ SetEng(cancel_all_orders(Eng))
    /\ call' = Call("cancel_all_orders")
    /\ UNCHANGED <<equity_curve, equity, pc, i, row, margin, peer>>

\* the strategy passes to submit_order an Order object it holds from an earlier
\* callback and that is no longer in the book
Resubmit ==
    /\ pc = "on_bar"
    /\ \E id \in DOMAIN orders :
         /\ ~InSeq(id, open_orders)
         /\ SetEng(submit_order(Eng, <<id>>, row.time))
    /\ call' = Call("submit_order")
    /\ UNCHANGED <<equity_curve, equity, pc, i, row, margin, peer>>

\* the strategy registers an asset through its engine
RegisterAsset ==
    /\ pc = "on_bar"
    /\ \E symbol \in Symbols, asset \in RegisterAssets :
         /\ SetEng(register_asset(Eng, symbol, asset))
         /\ call' = [Call("register_asset") EXCEPT !.symbols = <<symbol>>]
    /\ UNCHANGED <<equity_curve, equity, pc, i, row, margin, peer>>

OnBarReturn ==
    /\ pc = "on_bar"
    /\ pc' = After("on_bar")
    /\ call' = NoCall
    /\ UNCHANGED <<balance, portfolio, portfolio_keys, orders, open_orders, fill_history,
                   equity_curve, equity, next_id, submitted, error, i, row, margin, peer>>

Next ==
    \/ FetchRow(RunBars)
    \/ ProcessBarEnter
    \/ ProcessBarOrder
    \/ ProcessBarExit
    \/ SubmitOrder(OrderMenu)
    \/ Flatten
    \/ CancelAllOrders
    \/ OnBarReturn

Spec == Init /\ [][Next]_vars

\* the replay as the interpreter runs it: each statement of run and of
\* process_bar is executed once control reaches it, and the callback returns
NextLive ==
    \/ FetchRow(LiveBars)
    \/ ProcessBarEnter
    \/ ProcessBarOrder
    \/ ProcessBarExit
    \/ SubmitOrder(LiveMenu)
    \/ OnBarReturn

\* a strategy that trades the symbol X, which pays commission, from a flat
\* position, with MARKET and LIMIT orders on both sides
NextLedger ==
    \/ FetchRow(ReplayBars)
    \/ ProcessBarEnter
    \/ ProcessBarOrder
    \/ ProcessBarExit
    \/ SubmitOrder(PlainMenu)
    \/ OnBarReturn

LedgerSpec == Init /\ [][NextLedger]_vars

\* the strategy of LiveSpec on bars wide enough for both children of a bracket
NextOco ==
    \/ FetchRow(OcoBars)
    \/ ProcessBarEnter
    \/ ProcessBarOrder
    \/ ProcessBarExit
    \/ SubmitOrder(LiveMenu)
    \/ OnBarReturn

OcoSpec == Init /\ [][NextOco]_vars

\* weak fairness of each statement. For the two steps of process_bar that
\* compute on the whole engine, WF_vars(A) is written out as
\* []<>~ENABLED <<A>>_vars \/ []<><<A>>_vars with the action's guard for
\* ENABLED <<A>>_vars: both steps are defined for every state that meets their
\* guard, and both change i
Progress ==
    /\ WF_vars(FetchRow(LiveBars))
    /\ WF_vars(ProcessBarEnter)
    /\ \/ []<>~(pc = "process_bar" /\ i >= 1 /\ i <= Len(open_orders))
       \/ []<><<ProcessBarOrder>>_vars
    /\ \/ []<>~(pc = "process_bar" /\ i = Len(open_orders) + 1)
       \/ []<><<ProcessBarExit>>_vars
    /\ WF_vars(OnBarReturn)

LiveSpec == Init /\ [][NextLive]_vars /\ Progress

\* ExecutionEngine(portfolio={"X": AssetVars("X", q, a, 0, 5, 2)}) followed by
\* submit_order(book, 0), before run
InitReplay ==
    /\ balance = I(initial_balance)
    /\ equity = I(initial_balance)
    /\ \E pos \in Positions :
         portfolio = ("X" :> [AssetVars(I(5), I(2)) EXCEPT !.position_qty = I(pos[1]),
                                                         !.avg_entry_price = I(pos[2])])
    /\ portfolio_keys = <<"X">>
    /\ \E book \in Books :
         /\ \A k \in 1..Len(book) : ~PostInitRaises(book[k])
         /\ orders = [k \in 1..Len(book) |-> Order(k, book[k])]
         /\ open_orders = [k \in 1..Len(book) |-> k]
         /\ next_id = Len(book)
         /\ submitted = 1..Len(book)
    /\ fill_history = <<>>
    /\ equity_curve = <<>>
    /\ error = ""
    /\ pc = "fetch"
    /\ i = 0
    /\ row = NoRow
    /\ call = NoCall
    /\ margin = 1
    /\ peer = Peer(FALSE, EmptyPortfolio)

NextReplay ==
    \/ FetchRow(ReplayBars)
    \/ ProcessBarEnter
    \/ ProcessBarOrder
    \/ ProcessBarExit
    \/ OnBarReturn

ReplaySpec == InitReplay /\ [][NextReplay]_vars

\* the replay of a book of resting orders under a strategy that flattens and
\* cancels
InitPending ==
    /\ balance = I(initial_balance)
    /\ equity = I(initial_balance)
    /\ \E pos \in {<<0, 0>>, <<1, 100>>} :
         portfolio = ("X" :> [AssetVars(I(5), I(2)) EXCEPT !.position_qty = I(pos[1]),
                                                         !.avg_entry_price = I(pos[2])])
    /\ portfolio_keys = <<"X">>
    /\ \E book \in PendingBooks :
         /\ \A k \in 1..Len(book) : ~PostInitRaises(book[k])
         /\ orders = [k \in 1..Len(book) |-> Order(k, book[k])]
         /\ open_orders = [k \in 1..Len(book) |-> k]
         /\ next_id = Len(book)
         /\ submitted = 1..Len(book)
    /\ fill_history = <<>>
    /\ equity_curve = <<>>
    /\ error = ""
    /\ pc = "fetch"
    /\ i = 0
    /\ row = NoRow
    /\ call = NoCall
    /\ margin = 1
    /\ peer = Peer(FALSE, EmptyPortfolio)

NextPending ==
    \/ FetchRow(ReplayBars)
    \/ ProcessBarEnter
    \/ ProcessBarOrder
    \/ ProcessBarExit
    \/ Flatten
    \/ CancelAllOrders
    \/ OnBarReturn

PendingSpec == InitPending /\ [][NextPending]_vars

\* ExecutionEngine(portfolio={"X": AssetVars("X", qx, ax, 0, 5, 2),
\*                            "Y": AssetVars("Y", qy, ay)})
InitFlatten ==
    /\ balance = I(initial_balance)
    /\ equity = I(initial_balance)
    /\ \E x \in HoldingsX, y \in HoldingsY :
         portfolio = ("X" :> [AssetVars(I(5), I(2)) EXCEPT !.position_qty = I(x[1]),
                                                         !.avg_entry_price = I(x[2])]) @@
                     ("Y" :> [AssetVars(Zero, Zero) EXCEPT !.position_qty = I(y[1]),
                                                          !.avg_entry_price = I(y[2])])
    /\ portfolio_keys = <<"X", "Y">>
    /\ orders = <<>>
    /\ open_orders = <<>>
    /\ fill_history = <<>>
    /\ equity_curve = <<>>
    /\ next_id = 0
    /\ submitted = {}
    /\ error = ""
    /\ pc = "fetch"
    /\ i = 0
    /\ row = NoRow
    /\ call = NoCall
    /\ margin = 1
    /\ peer = Peer(FALSE, EmptyPortfolio)

\* ExecutionEngine(portfolio={"X": ..., "Y": ...}, margin=m)
InitFunds ==
    /\ balance = I(initial_balance)
    /\ equity = I(initial_balance)
    /\ \E x \in HoldingsX, y \in HoldingsY :
         portfolio = ("X" :> [AssetVars(I(5), I(2)) EXCEPT !.position_qty = I(x[1]),
                                                         !.avg_entry_price = I(x[2])]) @@
                     ("Y" :> [AssetVars(Zero, Zero) EXCEPT !.position_qty = I(y[1]),
                                                          !.avg_entry_price = I(y[2])])
    /\ portfolio_keys = <<"X", "Y">>
    /\ orders = <<>>
    /\ open_orders = <<>>
    /\ fill_history = <<>>
    /\ equity_curve = <<>>
    /\ next_id = 0
    /\ submitted = {}
    /\ error = ""
    /\ pc = "fetch"
    /\ i = 0
    /\ row = NoRow
    /\ call = NoCall
    /\ margin \in Margins
    /\ peer = Peer(FALSE, EmptyPortfolio)

\* MeanReversionStrategy.on_bar, line 36: funds = self.engine.get_available_funds()
GetAvailableFunds ==
    /\ pc = "on_bar"
    /\ call' = [Call("get_available_funds") EXCEPT !.ret = get_available_funds(Eng)]
    /\ UNCHANGED <<balance, portfolio, portfolio_keys, orders, open_orders, fill_history,
                   equity_curve, equity, next_id, submitted, error, pc, i, row, margin, peer>>

NextFunds ==
    \/ FetchRow(FlattenBars)
    \/ ProcessBarEnter
    \/ ProcessBarOrder
    \/ ProcessBarExit
    \/ SubmitOrder(FundsMenu)
    \/ GetAvailableFunds
    \/ OnBarReturn

FundsSpec == InitFunds /\ [][NextFunds]_vars

\* process_bar has registered and marked the row's symbol and its loop holds
\* the one PENDING order of the book, submitted before the bar
InitResolve ==
    /\ balance = I(initial_balance)
    /\ equity = I(initial_balance)
    /\ \E b \in BarSpace :
         /\ row = [time |-> 1, symbol |-> b.symbol, open |-> b.open,
                   high |-> b.high, low |-> b.low, close |-> b.close]
         /\ portfolio = ("X" :> [AssetVars(I(5), I(2)) EXCEPT !.last_price = b.close])
    /\ portfolio_keys = <<"X">>
    /\ \E a \in ResolveMenu :
         /\ ~PostInitRaises(a)
         /\ orders = (1 :> Order(1, a))
    /\ open_orders = <<1>>
    /\ next_id = 1
    /\ submitted = {1}
    /\ fill_history = <<>>
    /\ equity_curve = <<>>
    /\ error = ""
    /\ pc = "process_bar"
    /\ i = 1
    /\ call = NoCall
    /\ margin = 1
    /\ peer = Peer(FALSE, EmptyPortfolio)

\* process_bar, line 68: fill_price = self._check_fill(order, open_p, high_p,
\* low_p) on the order the loop holds; the call sizes a cash-sized MARKET order
CheckFill ==
    /\ pc = "process_bar" /\ i >= 1 /\ i <= Len(open_orders) /\ call.op = ""
    /\ orders[open_orders[i]].symbol = row.symbol
    /\ orders[open_orders[i]].status = "PENDING"
    /\ orders' = [orders EXCEPT ![open_orders[i]] =
                     _check_fill(orders[open_orders[i]], row.open, row.high, row.low).order]
    /\ call' = [Call("_check_fill") EXCEPT
                  !.ret = _check_fill(orders[open_orders[i]], row.open, row.high, row.low).price]
    /\ UNCHANGED <<balance, portfolio, portfolio_keys, open_orders, fill_history, equity_curve,
                   equity, next_id, submitted, error, pc, i, row, margin, peer>>

NextResolve == CheckFill

ResolveSpec == InitResolve /\ [][NextResolve]_vars

\* a caller about to construct an Order from the arguments in call.args
InitConstruct ==
    /\ balance = I(initial_balance)
    /\ equity = I(initial_balance)
    /\ portfolio = ("X" :> AssetVars(I(5), I(2)))
    /\ portfolio_keys = <<"X">>
    /\ orders = <<>>
    /\ open_orders = <<>>
    /\ fill_history = <<>>
    /\ equity_curve = <<>>
    /\ next_id = 0
    /\ submitted = {}
    /\ error = ""
    /\ pc = "on_bar"
    /\ i = 0
    /\ row = NoRow
    /\ \E args \in ArgSpace : call = [NoCall EXCEPT !.args = args]
    /\ margin = 1
    /\ peer = Peer(FALSE, EmptyPortfolio)

\* Order(**args): the dataclass __init__ followed by __post_init__; a ValueError
\* leaves no object and propagates out of the caller
ConstructOrder ==
    /\ pc = "on_bar" /\ call.op = ""
    /\ call' = [call EXCEPT !.op = "Order"]
    /\ IF PostInitRaises(call.args)
       THEN /\ error' = "ValueError"
            /\ pc' = "raised"
            /\ UNCHANGED <<orders, next_id>>
       ELSE /\ orders' = ((next_id + 1) :> Order(next_id + 1, call.args)) @@ orders
            /\ next_id' = next_id + 1
            /\ UNCHANGED <<error, pc>>
    /\ UNCHANGED <<balance, portfolio, portfolio_keys, open_orders, fill_history,
                   equity_curve, equity, submitted, i, row, margin, peer>>

NextConstruct == ConstructOrder

ConstructSpec == InitConstruct /\ [][NextConstruct]_vars

\* as InitReplay, with a book of CashBooks
InitCashBook ==
    /\ balance = I(initial_balance)
    /\ equity = I(initial_balance)
    /\ \E pos \in Positions :
         portfolio = ("X" :> [AssetVars(I(5), I(2)) EXCEPT !.position_qty = I(pos[1]),
                                                         !.avg_entry_price = I(pos[2])])
    /\ portfolio_keys = <<"X">>
    /\ \E book \in CashBooks :
         /\ \A k \in 1..Len(book) : ~PostInitRaises(book[k])
         /\ orders = [k \in 1..Len(book) |-> Order(k, book[k])]
         /\ open_orders = [k \in 1..Len(book) |-> k]
         /\ next_id = Len(book)
         /\ submitted = 1..Len(book)
    /\ fill_history = <<>>
    /\ equity_curve = <<>>
    /\ error = ""
    /\ pc = "fetch"
    /\ i = 0
    /\ row = NoRow
    /\ call = NoCall
    /\ margin = 1
    /\ peer = Peer(FALSE, EmptyPortfolio)

CashBookSpec == InitCashBook /\ [][NextReplay]_vars

\* two engines of one process, each built with or without a portfolio
\* argument: ExecutionEngine() or ExecutionEngine(portfolio={"X": AssetVars("X", ...)});
\* run is called on the first
InitTwo ==
    /\ balance = I(initial_balance)
    /\ equity = I(initial_balance)
    /\ \E given \in BOOLEAN, peer_given \in BOOLEAN :
         /\ portfolio = IF given THEN ("X" :> AssetVars(I(5), I(2))) ELSE EmptyPortfolio
         /\ portfolio_keys = IF given THEN <<"X">> ELSE <<>>
         /\ peer = Peer(~given /\ ~peer_given,
                        IF peer_given THEN ("X" :> AssetVars(I(5), I(2))) ELSE EmptyPortfolio)
    /\ orders = <<>>
    /\ open_orders = <<>>
    /\ fill_history = <<>>
    /\ equity_curve = <<>>
    /\ next_id = 0
    /\ submitted = {}
    /\ error = ""
    /\ pc = "fetch"
    /\ i = 0
    /\ row = NoRow
    /\ call = NoCall
    /\ margin = 1

\* the dict the second engine's self.portfolio refers to
PeerPortfolio == IF peer.aliased THEN portfolio ELSE peer.portfolio

\* ExecutionEngine(initial_balance=0.0, portfolio={"Y": AssetVars("Y", q, a)})
\* followed by submit_order(DustBook(...), 0), before run
InitDust ==
    /\ balance = Zero
    /\ equity = Zero
    /\ \E pos \in DustPositions, q \in DustQtys :
         /\ portfolio = ("Y" :> [AssetVars(Zero, Zero) EXCEPT !.position_qty = I(pos[1]),
                                                             !.avg_entry_price = I(pos[2])])
         /\ ~PostInitRaises(DustBook(pos, q)[1])
         /\ orders = [k \in 1..1 |-> Order(k, DustBook(pos, q)[k])]
    /\ portfolio_keys = <<"Y">>
    /\ open_orders = <<1>>
    /\ next_id = 1
    /\ submitted = {1}
    /\ fill_history = <<>>
    /\ equity_curve = <<>>
    /\ error = ""
    /\ pc = "fetch"
    /\ i = 0
    /\ row = NoRow
    /\ call = NoCall
    /\ margin = 1
    /\ peer = Peer(FALSE, EmptyPortfolio)

InitProrate ==
    /\ balance = Zero
    /\ equity = Zero
    /\ \E pos \in ProratePositions, q \in ProrateQtys, kind \in ProrateKinds :
         /\ portfolio = ("Y" :> [AssetVars(I(10000), I(20000))
                                    EXCEPT !.position_qty = R(pos[1], 4),
                                           !.avg_entry_price = I(pos[2])])
         /\ ~PostInitRaises(ProrateOrder(pos, q, kind))
         /\ orders = [k \in 1..1 |-> Order(k, ProrateOrder(pos, q, kind))]
    /\ portfolio_keys = <<"Y">>
    /\ open_orders = <<1>>
    /\ next_id = 1
    /\ submitted = {1}
    /\ fill_history = <<>>
    /\ equity_curve = <<>>
    /\ error = ""
    /\ pc = "fetch"
    /\ i = 0
    /\ row = NoRow
    /\ call = NoCall
    /\ margin = 1
    /\ peer = Peer(FALSE, EmptyPortfolio)

NextDust ==
    \/ FetchRow(DustBars)
    \/ ProcessBarEnter
    \/ ProcessBarOrder
    \/ ProcessBarExit
    \/ OnBarReturn

DustSpec == InitDust /\ [][NextDust]_vars
ProrateSpec == InitProrate /\ [][NextDust]_vars

NextFlatten ==
    \/ FetchRow(FlattenBars)
    \/ ProcessBarEnter
    \/ ProcessBarOrder
    \/ ProcessBarExit
    \/ SubmitOrder(FlattenMenu)
    \/ Flatten
    \/ OnBarReturn

FlattenSpec == InitFlatten /\ [][NextFlatten]_vars

\* the strategy of FlattenSpec, which may also repeat a call of flatten
NextTwice ==
    \/ FetchRow(FlattenBars)
    \/ ProcessBarEnter
    \/ ProcessBarOrder
    \/ ProcessBarExit
    \/ SubmitOrder(FlattenMenu)
    \/ Flatten
    \/ FlattenAgain
    \/ OnBarReturn

TwiceSpec == InitFlatten /\ [][NextTwice]_vars

\* the replay of a strategy that only submits market orders on one symbol
NextTrade ==
    \/ FetchRow(TradeBars)
    \/ ProcessBarEnter
    \/ ProcessBarOrder
    \/ ProcessBarExit
    \/ SubmitOrder(TradeMenu)
    \/ OnBarReturn

TradeSpec == Init /\ [][NextTrade]_vars

\* the replay of a strategy that registers assets and trades two symbols, of
\* which the engine was given one
NextRegister ==
    \/ FetchRow(RunBars)
    \/ ProcessBarEnter
    \/ ProcessBarOrder
    \/ ProcessBarExit
    \/ SubmitOrder(OrderMenu)
    \/ RegisterAsset
    \/ OnBarReturn

RegisterSpec == Init /\ [][NextRegister]_vars

\* the replay of a strategy that also cancels its orders and places them again
NextResubmit ==
    \/ FetchRow(ResubmitBars)
    \/ ProcessBarEnter
    \/ ProcessBarOrder
    \/ ProcessBarExit
    \/ SubmitOrder(ResubmitMenu)
    \/ CancelAllOrders
    \/ Resubmit
    \/ OnBarReturn

ResubmitSpec == Init /\ [][NextResubmit]_vars

TwoEngineSpec == InitTwo /\ [][NextTrade]_vars

\* ==================================================================== claims
\* the order process_bar examines in this step, when the step is an iteration
\* of its loop
InLoop == pc = "process_bar" /\ i >= 1 /\ i <= Len(open_orders)
Current == orders[open_orders[i]]
\* the step fills the order id
FillsNow(id) == orders[id].status = "PENDING" /\ orders'[id].status = "FILLED"
\* the trades the step appends to the fill history
NewTrades == SubSeq(fill_history', Len(fill_history) + 1, Len(fill_history'))

\* C1 -- Equity identity: every snapshot process_bar appends to the equity curve
\* records cash + the sum over all registered symbols of position quantity x
\* last mark price, as they are at that moment, stamped with the bar's time.
C1_EquityIdentity ==
    [][Len(equity_curve') > Len(equity_curve) =>
        /\ Len(equity_curve') = Len(equity_curve) + 1
        /\ Last(equity_curve').time = row.time
        /\ Last(equity_curve').equity =
             RAdd(balance', SumOver([s \in DOMAIN portfolio' |->
                                       RMul(portfolio'[s].position_qty, portfolio'[s].last_price)],
                                    DOMAIN portfolio'))]_vars

\* a snapshot taken with a long position on X and a short position on Y, both
\* marked away from their entry prices
C1_Witness ==
    /\ pc = "on_bar" /\ Len(equity_curve) = 3
    /\ DOMAIN portfolio = {"X", "Y"}
    /\ RGt(portfolio["X"].position_qty, Zero) /\ RLt(portfolio["Y"].position_qty, Zero)
    /\ portfolio["X"].last_price # portfolio["X"].avg_entry_price
    /\ portfolio["Y"].last_price # portfolio["Y"].avg_entry_price
    /\ Last(equity_curve).equity # balance

\* C2 -- No lookahead: an order passed to submit_order (by the strategy or by
\* flatten) during the callback for bar t is stamped with t after bar t has been
\* processed, and it is filled only by process_bar on a later bar of its symbol.
C2_NoLookahead ==
    [][/\ \A id \in submitted' \ submitted :
            /\ pc = "on_bar" /\ Len(equity_curve) = row.time
            /\ orders'[id].created_at = row.time
            /\ orders'[id].status = "PENDING"
       /\ \A id \in submitted :
            FillsNow(id) =>
                /\ pc = "process_bar" /\ row.symbol = orders[id].symbol
                /\ orders[id].created_at < row.time
                /\ orders'[id].filled_at = row.time
                /\ \A k \in 1..Len(NewTrades) : NewTrades[k].time = row.time]_vars

\* a closing order queued by flatten on bar t and filled on the next bar, t + 1
C2_Witness ==
    \E id \in submitted :
        /\ orders[id].symbol = "Y" /\ orders[id].side = "LONG"
        /\ orders[id].status = "FILLED"
        /\ orders[id].filled_at = orders[id].created_at + 1

\* C3 -- OCO invariant: for any non-null group_id, at most one order carrying
\* that group_id ever reaches FILLED. The engine keeps no record of the groups
\* that have fired: an order submitted with a group_id after a member of that
\* group has filled is not cancelled and fills in its turn.
C3_AtMostOneFilledEver ==
    \A a \in DOMAIN orders, b \in DOMAIN orders :
        (a # b /\ orders[a].group_id # 0 /\ orders[a].group_id = orders[b].group_id)
            => ~(orders[a].status = "FILLED" /\ orders[b].status = "FILLED")

\* C3, the part of it the engine does keep: when an order with a non-null
\* group_id fills, every other order of that group that is PENDING in the
\* open-order collection, on any symbol, becomes CANCELED in the same step; a
\* CANCELED order stays CANCELED; so two orders of one group are both FILLED
\* only if one of them was submitted after the other had filled.
C3_OCO ==
    [][/\ \A id \in DOMAIN orders :
            (FillsNow(id) /\ orders[id].group_id # 0) =>
                \A j \in DOMAIN orders \ {id} :
                    (/\ InSeq(j, open_orders)
                     /\ orders[j].group_id = orders[id].group_id
                     /\ orders[j].status = "PENDING") => orders'[j].status = "CANCELLED"
       /\ \A j \in DOMAIN orders :
            orders[j].status = "CANCELLED" => orders'[j].status = "CANCELLED"
       /\ \A a \in DOMAIN orders', b \in DOMAIN orders' :
            (/\ a # b /\ orders'[a].group_id # 0
             /\ orders'[a].group_id = orders'[b].group_id
             /\ orders'[a].status = "FILLED" /\ orders'[b].status = "FILLED")
                => \/ orders'[b].created_at >= orders'[a].filled_at
                   \/ orders'[a].created_at >= orders'[b].filled_at]_vars

\* a fill on one symbol has just cancelled a pending sibling on another symbol
C3_Witness ==
    /\ pc = "process_bar"
    /\ \E a \in DOMAIN orders, b \in DOMAIN orders :
        /\ orders[a].group_id # 0 /\ orders[a].group_id = orders[b].group_id
        /\ orders[a].symbol # orders[b].symbol
        /\ orders[a].status = "FILLED" /\ orders[a].filled_at = row.time
        /\ orders[b].status = "CANCELLED" /\ InSeq(b, open_orders)

\* the order the step fills, as the step leaves it, and the position it meets
FilledOrder == orders'[open_orders[i]]
Held == portfolio[Current.symbol]
FillStep == InLoop /\ FillsNow(open_orders[i])
\* the fill meets a position of the opposite direction
Reducing ==
    \/ FilledOrder.side = "SHORT" /\ RGt(Held.position_qty, Zero)
    \/ FilledOrder.side = "LONG" /\ RLt(Held.position_qty, Zero)
\* the commission of the fill at the symbol's configured rate
Commission ==
    RMul(RMul(FilledOrder.qty, FilledOrder.fill_price),
         RDiv(IF FilledOrder.order_type = "LIMIT" THEN Held.limit_fee_bps ELSE Held.market_fee_bps,
              I(10000)))

\* C4 -- Cash effect of a fill: a fill of quantity q at price p with commission
\* c = q*p*(limit fee rate if the order is LIMIT, else market fee rate) changes
\* the balance by exactly -(q*p + c) when LONG and +(q*p - c) when SHORT,
\* whether it increases, reduces or flips the position; the commissions of the
\* trades it emits add up to c.
C4_CashEffect ==
    [][FillStep =>
        LET notional == RMul(FilledOrder.qty, FilledOrder.fill_price)
        IN  /\ FilledOrder.side = "LONG" =>
                 RSub(balance', balance) = RNeg(RAdd(notional, Commission))
            /\ FilledOrder.side = "SHORT" =>
                 RSub(balance', balance) = RSub(notional, Commission)
            /\ SumOver([k \in 1..Len(NewTrades) |-> NewTrades[k].commission],
                       1..Len(NewTrades)) = Commission]_vars

\* a SHORT LIMIT order of 2 flipped a long position of 1 and was charged the
\* limit fee rate of 2 bps
C4_Witness ==
    /\ Len(fill_history) = 2
    /\ fill_history[1].order_id = fill_history[2].order_id
    /\ fill_history[1].side = "SHORT"
    /\ orders[fill_history[1].order_id].order_type = "LIMIT"
    /\ RLt(portfolio["X"].position_qty, Zero)
    /\ LET o == orders[fill_history[1].order_id]
           notional == RMul(o.qty, o.fill_price)
       IN  balance = RAdd(I(initial_balance),
                          RSub(notional, RMul(notional, R(2, 10000))))

\* C5 (as claimed) -- the realized P&L of a reducing fill is (avg_entry -
\* fill_price) x closing_qty when a long position is closed by a SHORT fill and
\* (fill_price - avg_entry) x closing_qty when a short position is closed by a
\* LONG fill.
C5_PnlAsClaimed ==
    [][(FillStep /\ Reducing) =>
        LET closing_qty == RMin(RAbs(Held.position_qty), FilledOrder.qty)
        IN  NewTrades[1].pnl =
                IF FilledOrder.side = "SHORT"
                THEN RMul(RSub(Held.avg_entry_price, FilledOrder.fill_price), closing_qty)
                ELSE RMul(RSub(FilledOrder.fill_price, Held.avg_entry_price), closing_qty)]_vars

\* C5 (amended) -- Realized P&L on a reducing fill, with closing_qty =
\* min(|existing position|, fill quantity): the closing trade has quantity
\* closing_qty and realized P&L (fill_price - avg_entry) x closing_qty when a
\* long position is closed by a SHORT fill, (avg_entry - fill_price) x
\* closing_qty when a short position is closed by a LONG fill.
C5_RealizedPnl ==
    [][(FillStep /\ Reducing) =>
        LET closing_qty == RMin(RAbs(Held.position_qty), FilledOrder.qty)
        IN  /\ Len(NewTrades) >= 1
            /\ NewTrades[1].qty = closing_qty
            /\ NewTrades[1].pnl =
                IF FilledOrder.side = "SHORT"
                THEN RMul(RSub(FilledOrder.fill_price, Held.avg_entry_price), closing_qty)
                ELSE RMul(RSub(Held.avg_entry_price, FilledOrder.fill_price), closing_qty)]_vars

\* a long position of 2 @ 100 reduced by a sale of 1 at 110: a gain of 10
C5_Witness ==
    /\ Len(fill_history) = 1
    /\ fill_history[1].side = "SHORT" /\ fill_history[1].qty = One
    /\ fill_history[1].price = I(110)
    /\ fill_history[1].pnl = I(10)
    /\ portfolio["X"].position_qty = One /\ portfolio["X"].avg_entry_price = I(100)

\* C6 -- Long round trip with zero fees: from flat with balance B, a MARKET LONG
\* of q filled at the open p1 leaves balance B - q*p1 and position +q @ p1; a
\* later MARKET SHORT of q filled at the open p2 leaves balance B + q*(p2 - p1),
\* position exactly 0 and one closing trade with realized P&L q*(p2 - p1).
C6_LongRoundTrip ==
    [][FillStep =>
        LET q == FilledOrder.qty
            B == I(initial_balance)
        IN  /\ (fill_history = <<>> /\ FilledOrder.side = "LONG") =>
                 /\ FilledOrder.fill_price = row.open
                 /\ balance' = RSub(B, RMul(q, row.open))
                 /\ portfolio'["Y"].position_qty = q
                 /\ portfolio'["Y"].avg_entry_price = row.open
            /\ (/\ Len(fill_history) = 1 /\ fill_history[1].side = "LONG"
                /\ FilledOrder.side = "SHORT" /\ q = fill_history[1].qty) =>
                 /\ FilledOrder.fill_price = row.open
                 /\ balance' = RAdd(B, RMul(q, RSub(row.open, fill_history[1].price)))
                 /\ portfolio'["Y"].position_qty = Zero
                 /\ Len(NewTrades) = 1
                 /\ NewTrades[1].pnl = RMul(q, RSub(row.open, fill_history[1].price))]_vars

\* bought 1 at 100, sold 1 at 110: balance 10010, flat, +10 realized
C6_Witness ==
    /\ Len(fill_history) = 2
    /\ fill_history[1].side = "LONG" /\ fill_history[1].qty = One
    /\ fill_history[1].price = I(100) /\ fill_history[1].pnl = Zero
    /\ fill_history[2].side = "SHORT" /\ fill_history[2].qty = One
    /\ fill_history[2].price = I(110) /\ fill_history[2].pnl = I(10)
    /\ balance = I(10010)
    /\ portfolio["Y"].position_qty = Zero

\* C7 -- Flip correctness: a fill larger than the opposite position it meets
\* emits a closing trade for the whole existing quantity carrying the realized
\* P&L, then a trade for the residual fill_qty - |existing_qty| with realized
\* P&L 0, and leaves the residual as the position, in the order's direction, at
\* an average entry price equal to the fill price.
C7_Flip ==
    [][(FillStep /\ Reducing /\ RGt(FilledOrder.qty, RAbs(Held.position_qty))) =>
        LET existing == RAbs(Held.position_qty)
            residual == RSub(FilledOrder.qty, existing)
            p == FilledOrder.fill_price
        IN  /\ Len(NewTrades) = 2
            /\ \A k \in 1..2 : /\ NewTrades[k].side = FilledOrder.side
                               /\ NewTrades[k].price = p
                               /\ NewTrades[k].order_id = FilledOrder.id
            /\ NewTrades[1].qty = existing
            /\ NewTrades[1].pnl = IF FilledOrder.side = "SHORT"
                                  THEN RMul(RSub(p, Held.avg_entry_price), existing)
                                  ELSE RMul(RSub(Held.avg_entry_price, p), existing)
            /\ NewTrades[2].qty = residual
            /\ NewTrades[2].pnl = Zero
            /\ portfolio'[FilledOrder.symbol].position_qty =
                 IF FilledOrder.side = "SHORT" THEN RNeg(residual) ELSE residual
            /\ portfolio'[FilledOrder.symbol].avg_entry_price = p]_vars

\* long 1 @ 100 hit by a sale of 2 at 110: +10 on the closing trade, then
\* short 1 @ 110
C7_Witness ==
    /\ Len(fill_history) = 2
    /\ fill_history[1].side = "SHORT" /\ fill_history[1].qty = One
    /\ fill_history[1].price = I(110) /\ fill_history[1].pnl = I(10)
    /\ fill_history[2].side = "SHORT" /\ fill_history[2].qty = One
    /\ fill_history[2].pnl = Zero
    /\ fill_history[2].order_id = fill_history[1].order_id
    /\ orders[fill_history[1].order_id].qty = I(2)
    /\ portfolio["X"].position_qty = I(-1) /\ portfolio["X"].avg_entry_price = I(110)

\* C8 -- Average-cost correctness: after two consecutive fills in one direction
\* q1 @ p1 and q2 @ p2 from flat, the average entry price is
\* (q1*p1 + q2*p2)/(q1 + q2), the quantity's magnitude is q1 + q2 in that
\* direction, and both trades carry realized P&L 0.
C8_AverageCost ==
    (Len(fill_history) = 2 /\ fill_history[1].side = fill_history[2].side) =>
        LET t1 == fill_history[1]
            t2 == fill_history[2]
        IN  /\ portfolio["Y"].avg_entry_price =
                 RDiv(RAdd(RMul(t1.qty, t1.price), RMul(t2.qty, t2.price)), RAdd(t1.qty, t2.qty))
            /\ portfolio["Y"].position_qty =
                 IF t1.side = "LONG" THEN RAdd(t1.qty, t2.qty) ELSE RNeg(RAdd(t1.qty, t2.qty))
            /\ t1.pnl = Zero /\ t2.pnl = Zero
            /\ t1.order_id # t2.order_id

\* sold 1 at 100, then sold 2 at 110: short 3 at 320/3
C8_Witness ==
    /\ Len(fill_history) = 2
    /\ fill_history[1].side = "SHORT" /\ fill_history[1].qty = One
    /\ fill_history[1].price = I(100)
    /\ fill_history[2].side = "SHORT" /\ fill_history[2].qty = I(2)
    /\ fill_history[2].price = I(110)
    /\ portfolio["Y"].position_qty = I(-3)
    /\ portfolio["Y"].avg_entry_price = R(320, 3)

\* C9 -- MARKET resolution: when process_bar examines a PENDING MARKET order on
\* a bar of its symbol the order is FILLED at that bar's open, and one sized by
\* cash gets the quantity cash_amount / open of that bar; no MARKET order of the
\* bar's symbol is left PENDING when process_bar returns.
C9_MarketResolution ==
    [][/\ (/\ InLoop /\ Current.status = "PENDING" /\ Current.order_type = "MARKET"
           /\ Current.symbol = row.symbol) =>
             /\ FilledOrder.status = "FILLED"
             /\ FilledOrder.fill_price = row.open
             /\ FilledOrder.filled_at = row.time
             /\ Truthy(Current.cash_amount) => FilledOrder.qty = RDiv(Current.cash_amount, row.open)
             /\ ~Truthy(Current.cash_amount) => FilledOrder.qty = Current.qty
             /\ Len(NewTrades) >= 1
             /\ \A k \in 1..Len(NewTrades) : NewTrades[k].price = row.open
       /\ (pc = "process_bar" /\ pc' = "on_bar") =>
             \A id \in DOMAIN orders :
                 ~(/\ orders[id].order_type = "MARKET" /\ orders[id].symbol = row.symbol
                   /\ orders[id].status = "PENDING")]_vars

\* an order to buy for 1000 in cash, resolved on a bar that opens at 110
C9_Witness ==
    \E id \in DOMAIN orders :
        /\ orders[id].order_type = "MARKET" /\ orders[id].cash_amount = I(1000)
        /\ orders[id].status = "FILLED" /\ orders[id].fill_price = I(110)
        /\ orders[id].qty = R(100, 11)
        /\ Len(fill_history) = 1 /\ fill_history[1].qty = R(100, 11)

\* C10 -- LIMIT resolution: a LONG LIMIT order fills on a bar iff low <= limit
\* price, at min(open, limit price); a SHORT LIMIT order fills iff high >= limit
\* price, at max(open, limit price); otherwise the bar leaves it PENDING.
C10_LimitResolution ==
    [][(/\ InLoop /\ Current.status = "PENDING" /\ Current.order_type = "LIMIT"
        /\ Current.symbol = row.symbol) =>
          LET fills == IF Current.side = "LONG" THEN RLe(row.low, Current.price)
                       ELSE RGe(row.high, Current.price)
              at == IF Current.side = "LONG" THEN RMin(row.open, Current.price)
                    ELSE RMax(row.open, Current.price)
          IN  IF fills
              THEN /\ FilledOrder.status = "FILLED"
                   /\ FilledOrder.fill_price = at
                   /\ Len(NewTrades) >= 1
                   /\ \A k \in 1..Len(NewTrades) : NewTrades[k].price = at
              ELSE /\ FilledOrder = Current
                   /\ NewTrades = <<>>
                   /\ balance' = balance]_vars

\* a bid at 95 filled at 90, the open of a bar that gapped below it
C10_Witness ==
    \E id \in DOMAIN orders :
        /\ orders[id].order_type = "LIMIT" /\ orders[id].side = "LONG"
        /\ orders[id].price = I(95)
        /\ orders[id].status = "FILLED" /\ orders[id].fill_price = I(90)

\* C11 -- STOP resolution: a SHORT STOP order fills at the bar's open if open <
\* stop price, else at exactly the stop price if low <= stop price, else not at
\* all; a LONG STOP order fills at the open if open > stop price, else at the
\* stop price if high >= stop price, else not at all.
C11_StopResolution ==
    [][(/\ InLoop /\ Current.status = "PENDING" /\ Current.order_type = "STOP"
        /\ Current.symbol = row.symbol) =>
          LET gapped == IF Current.side = "SHORT" THEN RLt(row.open, Current.price)
                        ELSE RGt(row.open, Current.price)
              touched == IF Current.side = "SHORT" THEN RLe(row.low, Current.price)
                         ELSE RGe(row.high, Current.price)
              at == IF gapped THEN row.open ELSE Current.price
          IN  IF gapped \/ touched
              THEN /\ FilledOrder.status = "FILLED"
                   /\ FilledOrder.fill_price = at
                   /\ FilledOrder.filled_at = row.time
                   /\ Len(NewTrades) >= 1
                   /\ \A k \in 1..Len(NewTrades) : NewTrades[k].price = at
              ELSE /\ FilledOrder = Current
                   /\ NewTrades = <<>>
                   /\ balance' = balance]_vars

\* a sell-stop at 95 filled at 90, the open of a bar that gapped through it
C11_Witness ==
    \E id \in DOMAIN orders :
        /\ orders[id].order_type = "STOP" /\ orders[id].side = "SHORT"
        /\ orders[id].price = I(95)
        /\ orders[id].status = "FILLED" /\ orders[id].fill_price = I(90)

\* the engine as _execute_fill leaves it in a filling step, before process_bar
\* goes on to the order's group, and the place of the first child it enqueues
AfterFill ==
    _execute_fill(Eng, _check_fill(Current, row.open, row.high, row.low).order,
                  FilledOrder.fill_price, row.time)
FirstChild == Len(open_orders) + 1
HasStop(order) == Truthy(order.stop_price) \/ Truthy(order.stop_loss_pct)
HasLimit(order) == Truthy(order.limit_price) \/ Truthy(order.limit_pct)
\* the object the step leaves: as enqueued, or CANCELED by the OCO
\* cancellation of a parent that carries a group_id of its own
LeftAs(child) ==
    IF Current.group_id # 0 THEN [child EXCEPT !.status = "CANCELLED"] ELSE child

\* C12 -- Bracket stop spawning: when an order with a stop directive fills at p,
\* a STOP order is enqueued PENDING on the opposite side and the same symbol,
\* with trigger price stop_price if given, else p*(1 - stop_loss_pct) for a LONG
\* parent and p*(1 + stop_loss_pct) for a SHORT parent, quantity stop_qty if
\* given else filled_qty*(1 + revenge), group_id = the parent's group_id if
\* set, otherwise the parent's id.
C12_StopSpawning ==
    [][(FillStep /\ HasStop(Current)) =>
        LET p == FilledOrder.fill_price
            child == AfterFill.orders[AfterFill.open_orders[FirstChild]]
        IN  /\ Len(AfterFill.open_orders) >= FirstChild
            /\ SubSeq(AfterFill.open_orders, 1, Len(open_orders)) = open_orders
            /\ child.id \notin DOMAIN orders
            /\ child.status = "PENDING"
            /\ child.order_type = "STOP"
            /\ child.symbol = Current.symbol
            /\ child.side = IF Current.side = "LONG" THEN "SHORT" ELSE "LONG"
            /\ child.price = IF Truthy(Current.stop_price) THEN Current.stop_price
                             ELSE IF Current.side = "LONG"
                             THEN RMul(p, RSub(One, Current.stop_loss_pct))
                             ELSE RMul(p, RAdd(One, Current.stop_loss_pct))
            /\ child.qty = IF Truthy(Current.stop_qty) THEN Current.stop_qty
                           ELSE RMul(FilledOrder.qty, RAdd(One, Current.revenge))
            /\ child.group_id = IF Current.group_id # 0 THEN Current.group_id ELSE Current.id
            /\ child.created_at = row.time
            /\ open_orders' = AfterFill.open_orders
            /\ orders'[child.id] = LeftAs(child)]_vars

\* a LONG MARKET order of 1 with stop_loss_pct 0.05 and revenge 1 filled at 100:
\* a STOP SHORT of 2 at 95 in the parent's group is pending
C12_Witness ==
    \E par \in DOMAIN orders, id \in DOMAIN orders :
        /\ orders[par].status = "FILLED" /\ orders[par].fill_price = I(100)
        /\ orders[par].side = "LONG" /\ orders[par].revenge = One
        /\ orders[id].order_type = "STOP" /\ orders[id].side = "SHORT"
        /\ orders[id].price = I(95) /\ orders[id].qty = I(2)
        /\ orders[id].group_id = par /\ orders[id].status = "PENDING"
        /\ InSeq(id, open_orders)

\* C13 -- Bracket limit spawning: when an order with a limit directive fills at
\* p, a LIMIT order is enqueued PENDING on the opposite side and the same
\* symbol, with price limit_price if given, else p*(1 + limit_pct) for a LONG
\* parent and p*(1 - limit_pct) for a SHORT parent, quantity limit_qty if given
\* else the filled quantity, and the group_id of the stop child: the parent's
\* group_id if set, otherwise the parent's id.
C13_LimitSpawning ==
    [][(FillStep /\ HasLimit(Current)) =>
        LET p == FilledOrder.fill_price
            at == IF HasStop(Current) THEN FirstChild + 1 ELSE FirstChild
            child == AfterFill.orders[AfterFill.open_orders[at]]
        IN  /\ Len(AfterFill.open_orders) = at
            /\ child.id \notin DOMAIN orders
            /\ child.status = "PENDING"
            /\ child.order_type = "LIMIT"
            /\ child.symbol = Current.symbol
            /\ child.side = IF Current.side = "LONG" THEN "SHORT" ELSE "LONG"
            /\ child.price = IF Truthy(Current.limit_price) THEN Current.limit_price
                             ELSE IF Current.side = "LONG"
                             THEN RMul(p, RAdd(One, Current.limit_pct))
                             ELSE RMul(p, RSub(One, Current.limit_pct))
            /\ child.qty = IF Truthy(Current.limit_qty) THEN Current.limit_qty ELSE FilledOrder.qty
            /\ child.group_id = IF Current.group_id # 0 THEN Current.group_id ELSE Current.id
            /\ HasStop(Current) =>
                 child.group_id = AfterFill.orders[AfterFill.open_orders[FirstChild]].group_id
            /\ child.created_at = row.time
            /\ open_orders' = AfterFill.open_orders
            /\ orders'[child.id] = LeftAs(child)]_vars

\* a SHORT MARKET order of 1 with limit_pct 0.1 filled at 110: a LIMIT LONG of 1
\* at 99 is pending, in one group with the STOP LONG at 115.5
C13_Witness ==
    \E par \in DOMAIN orders, id \in DOMAIN orders, st \in DOMAIN orders :
        /\ orders[par].status = "FILLED" /\ orders[par].fill_price = I(110)
        /\ orders[par].side = "SHORT" /\ orders[par].group_id = 0
        /\ orders[id].order_type = "LIMIT" /\ orders[id].side = "LONG"
        /\ orders[id].price = I(99) /\ orders[id].qty = One
        /\ orders[id].group_id = par /\ orders[id].status = "PENDING"
        /\ orders[st].order_type = "STOP" /\ orders[st].price = R(231, 2)
        /\ orders[st].group_id = par
        /\ InSeq(id, open_orders)


\* the step is a call of flatten by the strategy; the symbols it targets
FlattenStep == pc = "on_bar" /\ call'.op = "flatten"
Targeted ==
    IF call'.symbols = <<"None">> THEN DOMAIN portfolio
    ELSE {call'.symbols[k] : k \in 1..Len(call'.symbols)}
\* the targeted symbols that hold a position
ToClose == {s \in Targeted \cap DOMAIN portfolio : portfolio[s].position_qty # Zero}
\* the orders the step constructs
Constructed == DOMAIN orders' \ DOMAIN orders

\* C14 -- flatten(time, symbols): every open order whose symbol is targeted
\* becomes CANCELED and leaves the open-order collection, every other order is
\* left as it was and the open orders on other symbols keep their places, and
\* exactly one order is constructed and queued for each targeted symbol with a
\* non-zero position: PENDING, MARKET, on the side opposite the position, of
\* its absolute quantity, stamped with the time given; the balance, the
\* positions and the fill history are unchanged.
C14_Flatten ==
    [][FlattenStep =>
        /\ \A id \in DOMAIN orders :
             IF InSeq(id, open_orders) /\ orders[id].symbol \in Targeted
             THEN /\ orders'[id] = [orders[id] EXCEPT !.status = "CANCELLED"]
                  /\ ~InSeq(id, open_orders')
             ELSE orders'[id] = orders[id]
        /\ SelectSeq(open_orders', LAMBDA id : id \in DOMAIN orders) =
             SelectSeq(open_orders, LAMBDA id : orders[id].symbol \notin Targeted)
        /\ \A s \in ToClose :
             \E id \in Constructed :
                /\ orders'[id].symbol = s
                /\ orders'[id].status = "PENDING" /\ orders'[id].order_type = "MARKET"
                /\ orders'[id].side = IF RGt(portfolio[s].position_qty, Zero) THEN "SHORT" ELSE "LONG"
                /\ orders'[id].qty = RAbs(portfolio[s].position_qty)
                /\ orders'[id].created_at = row.time
                /\ InSeq(id, open_orders')
        /\ Cardinality(Constructed) = Cardinality(ToClose)
        /\ Len(open_orders') = Len(SelectSeq(open_orders, LAMBDA id : orders[id].symbol \notin Targeted))
                                 + Cardinality(ToClose)
        /\ balance' = balance /\ portfolio' = portfolio /\ fill_history' = fill_history]_vars

\* flatten(t, ["X"]) has cancelled an open order on X, left an open order on Y
\* in place and queued the order that closes the position held on X
C14_Witness ==
    /\ pc = "on_bar" /\ call.op = "flatten" /\ call.symbols = <<"X">>
    /\ \E a \in DOMAIN orders, b \in DOMAIN orders, c \in DOMAIN orders :
        /\ orders[a].symbol = "X" /\ orders[a].status = "CANCELLED" /\ ~InSeq(a, open_orders)
        /\ orders[b].symbol = "Y" /\ orders[b].status = "PENDING" /\ InSeq(b, open_orders)
        /\ orders[c].strategy_name = "flatten" /\ orders[c].symbol = "X"
        /\ orders[c].status = "PENDING" /\ InSeq(c, open_orders)
        /\ orders[c].created_at = row.time
    /\ portfolio["X"].position_qty # Zero /\ portfolio["Y"].position_qty # Zero

\* process_bar has examined every open order of the bar
BarDone == pc = "process_bar" /\ i = Len(open_orders) + 1
\* the order is one queued by flatten for the bar's symbol, and no order for
\* that symbol was submitted after it
ClosesBar(id) ==
    /\ InSeq(id, open_orders)
    /\ orders[id].strategy_name = "flatten" /\ orders[id].symbol = row.symbol
    /\ \A j \in DOMAIN orders :
         (InSeq(j, open_orders) /\ orders[j].symbol = row.symbol) => j <= id

\* C15 -- Flatten closes on the next bar: when process_bar has gone through a
\* bar of a symbol for which flatten queued its MARKET order, no further order
\* for that symbol having been submitted, that order is FILLED at the bar's open
\* and time and the symbol's position quantity is exactly 0 with average entry
\* price 0, whichever the direction of the position was; so the order never
\* outlives the first bar of its symbol.
C15_FlattenCloses ==
    BarDone =>
        \A id \in DOMAIN orders :
            ClosesBar(id) =>
                /\ orders[id].status = "FILLED"
                /\ orders[id].fill_price = row.open
                /\ orders[id].filled_at = row.time /\ orders[id].created_at < row.time
                /\ portfolio[row.symbol].position_qty = Zero
                /\ portfolio[row.symbol].avg_entry_price = Zero

\* the long position of 3 on X and the short position of 2 on Y have both been
\* closed by flatten's orders, each on the next bar of its symbol
C15_Witness ==
    /\ BarDone
    /\ \E a \in DOMAIN orders, b \in DOMAIN orders :
        /\ orders[a].strategy_name = "flatten" /\ orders[a].symbol = "X"
        /\ orders[a].side = "SHORT" /\ orders[a].qty = I(3) /\ orders[a].status = "FILLED"
        /\ orders[b].strategy_name = "flatten" /\ orders[b].symbol = "Y"
        /\ orders[b].side = "LONG" /\ orders[b].qty = I(2) /\ orders[b].status = "FILLED"
        /\ ClosesBar(a) \/ ClosesBar(b)
    /\ portfolio["X"].position_qty = Zero /\ portfolio["Y"].position_qty = Zero
    /\ balance = RAdd(I(initial_balance), RSub(RSub(I(300), R(15, 100)), I(220)))

\* the step is a call of get_available_funds by the strategy
FundsStep == pc = "on_bar" /\ call'.op = "get_available_funds"
\* what a symbol's position takes out of the available funds
Reserved(s) ==
    IF RLt(portfolio[s].position_qty, Zero)
    THEN RMul(RAbs(portfolio[s].position_qty), portfolio[s].avg_entry_price)
    ELSE Zero

\* C16 -- Available funds: get_available_funds returns (cash - 2 x the sum over
\* the symbols held short of |position quantity| x average entry price) divided
\* by the margin divisor, long and flat symbols contributing nothing, and the
\* call leaves the engine's state as it was.
C16_AvailableFunds ==
    [][FundsStep =>
        /\ call'.ret =
             RDiv(RSub(balance, RMul(I(2), SumOver([s \in DOMAIN portfolio |-> Reserved(s)],
                                                   DOMAIN portfolio))),
                  I(margin))
        /\ UNCHANGED <<balance, portfolio, portfolio_keys, orders, open_orders, fill_history,
                       equity_curve, equity, next_id, error, margin>>]_vars

\* with margin divisor 2, a long position on X and a short position on Y
\* entered at 100 and 110 and marked at 120, the strategy was told its funds
C16_Witness ==
    /\ pc = "on_bar" /\ call.op = "get_available_funds" /\ margin = 2
    /\ RGt(portfolio["X"].position_qty, Zero)
    /\ portfolio["Y"].position_qty = I(-4)
    /\ portfolio["Y"].avg_entry_price = I(105) /\ portfolio["Y"].last_price = I(120)
    /\ call.ret = RDiv(RSub(balance, I(840)), I(2))

\* the step constructs an Order from the arguments in call.args
ConstructStep == call.op = "" /\ call'.op = "Order"
\* a bracket directive is given when it is set to a value other than 0
Given(x) == ~IsNone(x) /\ x # Zero
ExactlyOnePositive(a) == RGt(a.qty, Zero) # RGt(a.cash_amount, Zero)
\* the arguments the claim says are refused
Refused(a) ==
    \/ a.order_type \in {"LIMIT", "STOP", "STOP_LIMIT"} /\ IsNone(a.price)
    \/ ~ExactlyOnePositive(a)
    \/ Given(a.stop_price) /\ Given(a.stop_loss_pct)
    \/ Given(a.limit_price) /\ Given(a.limit_pct)

\* C17 -- Order construction validation: constructing an Order raises, and
\* leaves no order object and the book as it was, exactly when the kind is
\* LIMIT, STOP or STOP_LIMIT with no price, or quantity and cash amount are not
\* exactly-one-positive, or stop_price and stop_loss_pct are both given, or
\* limit_price and limit_pct are both given; otherwise one Order object exists,
\* PENDING, carrying the arguments.
C17_ConstructionValidation ==
    [][ConstructStep =>
        IF Refused(call.args)
        THEN error' = "ValueError" /\ orders' = orders /\ open_orders' = open_orders
        ELSE /\ error' = ""
             /\ DOMAIN orders' = DOMAIN orders \cup {next_id'} /\ next_id' \notin DOMAIN orders
             /\ orders'[next_id'].status = "PENDING"
             /\ \A f \in DOMAIN call.args : orders'[next_id'][f] = call.args[f]
             /\ open_orders' = open_orders]_vars

\* an otherwise well-formed MARKET order of quantity 1 was refused for carrying
\* both stop_price and stop_loss_pct
C17_Witness ==
    /\ call.op = "Order" /\ error = "ValueError" /\ orders = <<>>
    /\ call.args.order_type = "MARKET" /\ call.args.qty = One /\ call.args.cash_amount = Zero
    /\ call.args.stop_price = I(95) /\ call.args.stop_loss_pct = R(1, 20)
    /\ IsNone(call.args.limit_price) /\ IsNone(call.args.limit_pct)

\* C18 -- No errors during replay: with an open-order collection made only of
\* successfully constructed orders and bars with positive prices, process_bar
\* never raises: the only exception that ends a run is the ValueError of an
\* Order the caller constructs.
C18_NoErrorInReplay == pc = "raised" => (call.op = "Order" /\ error = "ValueError")

\* C18, where it fails: an order sized by cash_amount on a LIMIT or STOP kind
\* keeps quantity 0 and its fill on a flat position divides by zero
C18_Witness ==
    /\ pc = "raised" /\ error = "ZeroDivisionError"
    /\ \E id \in DOMAIN orders :
        /\ orders[id].order_type = "LIMIT" /\ orders[id].qty = Zero
        /\ orders[id].cash_amount = I(1000) /\ orders[id].status = "PENDING"
    /\ fill_history = <<>>

\* C19 -- Per-instance state: whatever one engine does while it processes bars
\* and fills, the other engine's portfolio (registered symbols, positions,
\* marks) and open orders stay as they were.
C19_PerInstanceState ==
    [][PeerPortfolio' = PeerPortfolio /\ peer'.open_orders = peer.open_orders]_vars

\* C19, where it fails: both engines were built without a portfolio argument,
\* and the symbol the first registered and went short on is in the portfolio
\* of the second, which has processed no bar
C19_Witness ==
    /\ peer.aliased /\ peer.open_orders = <<>>
    /\ "Y" \in DOMAIN PeerPortfolio
    /\ RLt(PeerPortfolio["Y"].position_qty, Zero)
    /\ PeerPortfolio["Y"].last_price = I(120)

\* C20 -- Order lifecycle: in every step of the engine an order's status either
\* stays as it is or moves from PENDING to FILLED or from PENDING to CANCELED;
\* no order is ever REJECTED, and a FILLED or CANCELED order keeps its status.
C20_Lifecycle ==
    [][/\ \A id \in DOMAIN orders :
            orders'[id].status # orders[id].status =>
                (orders[id].status = "PENDING" /\ orders'[id].status \in {"FILLED", "CANCELLED"})
       /\ \A id \in DOMAIN orders' : orders'[id].status \in {"PENDING", "FILLED", "CANCELLED"}]_vars

\* C20, where it fails: an order that was FILLED, with its trade in the fill
\* history, is PENDING in the book again after submit_order was given it anew
C20_Witness ==
    \E id \in DOMAIN orders :
        /\ orders[id].status = "PENDING" /\ InSeq(id, open_orders)
        /\ \E k \in 1..Len(fill_history) : fill_history[k].order_id = id

\* the quantity a reducing fill leaves before the floor: what was held minus
\* what was filled, signed in the direction of the position held
Residual == RSub(RAbs(Held.position_qty), FilledOrder.qty)

\* C21 -- Epsilon floor: whenever a reducing fill leaves a residual quantity r
\* with |r| < 1e-9, of either sign and on either the LONG-fill or the
\* SHORT-fill branch, the position is stored as exactly 0 with average entry
\* price 0 and the fill emits its closing trade only.
C21_EpsilonFloor ==
    [][(FillStep /\ Reducing /\ BelowEps(Residual)) =>
        /\ portfolio'[Current.symbol].position_qty = Zero
        /\ portfolio'[Current.symbol].avg_entry_price = Zero
        /\ Len(NewTrades) = 1]_vars

\* C21, the three cases in which the floor is applied: a LONG fill on a short
\* position with a residual of either sign, and a SHORT fill on a long position
\* with a positive residual.
C21_FloorWhereApplied ==
    [][(/\ FillStep /\ Reducing /\ BelowEps(Residual)
        /\ FilledOrder.side = "LONG" \/ RGe(Residual, Zero)) =>
        /\ portfolio'[Current.symbol].position_qty = Zero
        /\ portfolio'[Current.symbol].avg_entry_price = Zero
        /\ Len(NewTrades) = 1]_vars

\* C21, where it fails: a SHORT fill of 1 + 5e-10 on a long position of 1 left
\* a short position of 5e-10 entered at the fill price, and a flip trade
C21_Witness ==
    /\ portfolio["Y"].position_qty = R(-1, 2000000000)
    /\ portfolio["Y"].avg_entry_price # Zero
    /\ Len(fill_history) = 2
    /\ fill_history[2].qty = R(1, 2000000000) /\ fill_history[2].side = "SHORT"

\* the step takes the equity snapshot of the bar
SnapshotStep == Len(equity_curve') # Len(equity_curve)
\* every order of the open-order collection is PENDING
AllPending(book, heap) == \A k \in 1..Len(book) : heap[book[k]].status = "PENDING"

\* C22 -- Per-bar step order: for every bar the engine first sets the bar
\* symbol's mark to the close, then resolves and accounts the fills, then
\* appends exactly one equity snapshot stamped with the bar's time and purges
\* the settled orders, and only then the strategy is called; when n bars have
\* been gone through the equity curve has n entries, the k-th stamped with
\* the k-th bar.
C22_StepOrder ==
    [][/\ (pc = "process_bar" /\ i = 0) =>
            /\ portfolio'[row.symbol].last_price = row.close
            /\ fill_history' = fill_history /\ orders' = orders /\ ~SnapshotStep
       /\ (fill_history' # fill_history \/ balance' # balance) =>
            /\ InLoop
            /\ portfolio[row.symbol].last_price = row.close
            /\ Len(equity_curve) = row.time - 1 /\ ~SnapshotStep
       /\ SnapshotStep =>
            /\ pc = "process_bar" /\ i = Len(open_orders) + 1
            /\ equity_curve' = Append(equity_curve, [time |-> row.time, equity |-> equity'])
            /\ Len(equity_curve') = row.time
            /\ AllPending(open_orders', orders')
            /\ fill_history' = fill_history /\ portfolio' = portfolio
            /\ pc' = "on_bar" /\ call = NoCall
       /\ call' # call =>
            /\ pc = "on_bar" /\ Len(equity_curve) = row.time
            /\ Last(equity_curve).time = row.time
       /\ (pc = "on_bar" /\ pc' # "on_bar") => (pc' = "fetch" /\ row' = row)
       /\ pc' = "fetch" =>
            /\ Len(equity_curve') = row'.time
            /\ \A k \in 1..Len(equity_curve') : equity_curve'[k].time = k]_vars

\* the third bar has been processed: a fill of that bar is in the history, its
\* snapshot is the third of the curve, the book is purged, and the strategy has
\* just been called and has submitted an order
C22_Witness ==
    /\ pc = "on_bar" /\ row.time = 3 /\ Len(equity_curve) = 3
    /\ \E k \in 1..Len(fill_history) : fill_history[k].time = 3
    /\ call.op = "submit_order"
    /\ \E id \in DOMAIN orders : orders[id].status = "PENDING" /\ orders[id].created_at = 3

\* the place of the order id in the open-order collection
Place(book, id) == CHOOSE k \in 1..Len(book) : book[k] = id

\* C23 -- Purge invariant: whenever process_bar, flatten or cancel_all_orders
\* has returned, every order of the open-order collection is PENDING; the purge
\* at the end of a bar removes every order that the bar filled or cancelled
\* and keeps the PENDING ones in their relative order.
C23_Purge ==
    [][/\ SnapshotStep =>
            /\ \A k \in 1..Len(open_orders) :
                 InSeq(open_orders[k], open_orders') <=> orders[open_orders[k]].status = "PENDING"
            /\ \A k \in 1..Len(open_orders') : InSeq(open_orders'[k], open_orders)
            /\ \A a, b \in 1..Len(open_orders') :
                 a < b => Place(open_orders, open_orders'[a]) < Place(open_orders, open_orders'[b])
            /\ AllPending(open_orders', orders')
       /\ (call' # call /\ call'.op \in {"flatten", "cancel_all_orders"}) =>
            AllPending(open_orders', orders')
       /\ (pc' \in {"fetch", "on_bar"}) => AllPending(open_orders', orders')]_vars

\* process_bar has returned from a bar that filled the first order of the book
\* and cancelled another, with an order after them still PENDING: the purge left
\* the PENDING one alone in the book
C23_Witness ==
    /\ pc = "on_bar" /\ call = NoCall
    /\ \E f, c, p \in DOMAIN orders :
         /\ orders[f].status = "FILLED" /\ orders[f].filled_at = row.time
         /\ orders[c].status = "CANCELLED"
         /\ orders[p].status = "PENDING" /\ orders[p].created_at < row.time
         /\ open_orders = <<p>>

\* the total of the commissions of the trades the step appends
TradeCommissions ==
    SumOver([k \in 1..Len(NewTrades) |-> NewTrades[k].commission], 1..Len(NewTrades))
\* closing_qty = min(|existing quantity|, fill quantity)
ClosingQty == RMin(RAbs(Held.position_qty), FilledOrder.qty)
\* total commission / fill quantity
PerShare == RDiv(Commission, FilledOrder.qty)
\* the fill exceeds the position by less than q_epsilon and the position is
\* stored as 0
FlooredOverfill ==
    /\ Reducing /\ RLt(Residual, Zero)
    /\ portfolio'[Current.symbol].position_qty = Zero

\* C24 as claimed -- on a reducing or flipping fill the closing trade's
\* commission is closing_qty x (total commission / fill quantity) and the flip
\* trade's is residual_qty x (total commission / fill quantity), and for every
\* fill the commissions of its trades sum to the total commission charged.
C24_SumAsClaimed ==
    [][(FillStep /\ RGt(FilledOrder.qty, Zero)) =>
        /\ Reducing =>
             /\ NewTrades[1].commission = RMul(ClosingQty, PerShare)
             /\ Len(NewTrades) = 2 =>
                  NewTrades[2].commission = RMul(RAbs(Residual), PerShare)
        /\ TradeCommissions = Commission]_vars

\* C24 -- Prorated commission: on a reducing or flipping fill the closing
\* trade's commission is closing_qty x (total commission / fill quantity) and
\* the flip trade's is residual_qty x (total commission / fill quantity); the
\* commissions of the trades of a fill sum to the total commission charged,
\* except when the fill exceeds the position by less than q_epsilon and the
\* residual is floored to 0: then the closing trade is the only one and the
\* commission on the floored residual is in no trade.
C24_ProratedCommission ==
    [][(FillStep /\ RGt(FilledOrder.qty, Zero)) =>
        /\ Reducing =>
             /\ NewTrades[1].commission = RMul(ClosingQty, PerShare)
             /\ Len(NewTrades) = 2 =>
                  NewTrades[2].commission = RMul(RAbs(Residual), PerShare)
        /\ TradeCommissions = IF FlooredOverfill THEN RMul(ClosingQty, PerShare) ELSE Commission
        /\ FlooredOverfill =>
             RSub(Commission, TradeCommissions) = RMul(RAbs(Residual), PerShare)]_vars

\* a LONG LIMIT fill of 1/4 + 5e-10 closed a short position of 1/4: cash was
\* charged 200% of the whole notional, the one trade carries 200% of 1/4
C24_Witness ==
    /\ Len(fill_history) = 1
    /\ fill_history[1].side = "LONG" /\ orders[1].order_type = "LIMIT"
    /\ fill_history[1].qty = R(1, 4) /\ orders[1].qty = R(500000001, 2000000000)
    /\ fill_history[1].commission = R(1, 2)
    /\ portfolio["Y"].position_qty = Zero
    /\ balance = RNeg(R(1500000003, 2000000000))

\* the fill leaves a position of the direction opposite to the one it met
Flips ==
    /\ Reducing
    /\ RSign(portfolio'[Current.symbol].position_qty) = 0 - RSign(Held.position_qty)
\* the step leaves the earlier entries of the fill history as they are
AppendOnly ==
    /\ Len(fill_history') >= Len(fill_history)
    /\ SubSeq(fill_history', 1, Len(fill_history)) = fill_history
\* the trades of the step carry the order's id, symbol and side, the fill
\* price and the bar's timestamp
CarryTheFill ==
    \A k \in 1..Len(NewTrades) :
        /\ NewTrades[k].order_id = FilledOrder.id
        /\ NewTrades[k].symbol = FilledOrder.symbol
        /\ NewTrades[k].side = FilledOrder.side
        /\ NewTrades[k].price = FilledOrder.fill_price
        /\ NewTrades[k].time = row.time
\* the order of the step has trades in the history already
TradedBefore == \E k \in 1..Len(fill_history) : fill_history[k].order_id = Current.id

\* C25 -- Trade emission and history: every fill appends exactly one trade to
\* the fill history, or exactly two when it flips the position, each with the
\* filled order's id, symbol and side, the fill price and the bar's timestamp;
\* no step removes, reorders or rewrites an earlier entry, and an order
\* contributes trades on at most one bar.
C25_TradeEmission ==
    [][/\ AppendOnly
       /\ FillStep =>
            /\ Len(NewTrades) = IF Flips THEN 2 ELSE 1
            /\ CarryTheFill
            /\ ~TradedBefore
       /\ ~FillStep => fill_history' = fill_history]_vars

\* C25, for the first fill of a LONG or SHORT order: one trade, or two on a
\* flip, carrying the fill; and the history is append-only on every step.
C25_DirectionalFirstFill ==
    [][/\ AppendOnly
       /\ (FillStep /\ FilledOrder.side \in {"LONG", "SHORT"} /\ ~TradedBefore) =>
            /\ Len(NewTrades) = IF Flips THEN 2 ELSE 1
            /\ CarryTheFill
       /\ ~FillStep => fill_history' = fill_history]_vars

\* C25, where it fails: an order of side FLAT is FILLED and out of the book,
\* and the fill history has no trade of it
C25_Witness ==
    \E id \in DOMAIN orders :
        /\ orders[id].side = "FLAT" /\ orders[id].status = "FILLED"
        /\ ~InSeq(id, open_orders)
        /\ \A k \in 1..Len(fill_history) : fill_history[k].order_id # id

\* C25, where it fails as well: an order placed again after its fill has trades
\* of two bars in the history
C25_TwoBars ==
    \E a, b \in 1..Len(fill_history) :
        fill_history[a].order_id = fill_history[b].order_id /\ fill_history[a].time < fill_history[b].time

\* the bar's prices meet none of the resolver's rules for the order
NoRule(order) == IsNone(_check_fill(order, row.open, row.high, row.low).price)
\* the step examines a PENDING order of the bar's symbol and the resolver
\* yields no fill
Unmatched ==
    /\ InLoop /\ Current.symbol = row.symbol /\ Current.status = "PENDING"
    /\ NoRule(Current)
\* the order id was examined by the loop of the current bar, found unmatched,
\* and is PENDING in the book
PassedOver(id) ==
    /\ pc = "process_bar" /\ i >= 1
    /\ InSeq(id, open_orders) /\ Place(open_orders, id) < i
    /\ orders[id].symbol = row.symbol /\ orders[id].status = "PENDING"
\* the step fills an order of the OCO group of the order id and cancels id
CancelledBySibling(id) ==
    /\ orders[id].group_id # 0 /\ orders'[id].status = "CANCELLED"
    /\ \E j \in DOMAIN orders \ {id} : FillsNow(j) /\ orders[j].group_id = orders[id].group_id
\* the step is a call of flatten or of cancel_all_orders
CancellingCall == call' # call /\ call'.op \in {"flatten", "cancel_all_orders"}

\* C26 as claimed -- an order the resolver yields no fill for on a bar remains
\* PENDING in the open-order collection after that bar, and the bar changes no
\* cash, position or trade on its account; a STOP_LIMIT order never fills and
\* stays PENDING until flatten or cancel_all_orders cancels it.
C26_StayPendingAsClaimed ==
    [][/\ Unmatched =>
            /\ balance' = balance /\ portfolio' = portfolio /\ fill_history' = fill_history
            /\ orders' = orders /\ open_orders' = open_orders
       /\ \A id \in DOMAIN orders :
            PassedOver(id) => (orders'[id].status = "PENDING" /\ InSeq(id, open_orders'))
       /\ \A id \in DOMAIN orders :
            orders[id].order_type = "STOP_LIMIT" =>
                /\ orders'[id].status # "FILLED"
                /\ orders'[id].status # orders[id].status =>
                     (CancellingCall /\ orders'[id].status = "CANCELLED")
                /\ (InLoop /\ open_orders[i] = id /\ Current.symbol = row.symbol
                    /\ Current.status = "PENDING") => Unmatched]_vars

\* C26 -- Unmatched orders stay pending: examining an order the resolver yields
\* no fill for changes no cash, position, trade or order, and the order remains
\* PENDING in the open-order collection after that bar unless an order of its
\* OCO group fills later on the same bar, which cancels it; a STOP_LIMIT order
\* matches no rule on any bar, so it never fills and stays PENDING until
\* flatten, cancel_all_orders or the fill of an order of its OCO group cancels
\* it.
C26_StayPending ==
    [][/\ Unmatched =>
            /\ balance' = balance /\ portfolio' = portfolio /\ fill_history' = fill_history
            /\ orders' = orders /\ open_orders' = open_orders
       /\ \A id \in DOMAIN orders :
            PassedOver(id) =>
                \/ orders'[id].status = "PENDING" /\ InSeq(id, open_orders')
                \/ CancelledBySibling(id)
       /\ \A id \in DOMAIN orders :
            orders[id].order_type = "STOP_LIMIT" =>
                /\ orders'[id].status # "FILLED"
                /\ orders'[id].status # orders[id].status =>
                     /\ orders'[id].status = "CANCELLED"
                     /\ CancellingCall \/ CancelledBySibling(id)
                /\ (InLoop /\ open_orders[i] = id /\ Current.symbol = row.symbol
                    /\ Current.status = "PENDING") => Unmatched]_vars

\* a STOP_LIMIT order at 105 was still PENDING in the book after three bars,
\* two of which traded through 105, and flatten has now cancelled it
C26_Witness ==
    /\ row.time = 3 /\ call.op = "flatten"
    /\ orders[1].order_type = "STOP_LIMIT" /\ orders[1].status = "CANCELLED"
    /\ \E a, b \in 1..Len(equity_curve) : a # b
    /\ fill_history = <<>>
    /\ portfolio["X"].last_price = I(120)

\* the step accounts a fill for an order whose quantity is zero
ZeroQuantityFill ==
    /\ InLoop /\ Current.symbol = row.symbol /\ Current.status = "PENDING"
    /\ ~NoRule(Current)
    /\ _check_fill(Current, row.open, row.high, row.low).order.qty = Zero
\* the accounting completes, with zero commission on the trade and on cash
CompletesAtZeroCommission ==
    /\ error' = "" /\ pc' # "raised"
    /\ FillsNow(open_orders[i])
    /\ FeePerShare(FilledOrder, Commission) = Zero
    /\ \A k \in 1..Len(NewTrades) : NewTrades[k].commission = Zero /\ NewTrades[k].qty = Zero
    /\ balance' = balance

\* C27 -- Zero-quantity guard: accounting a fill for an order whose quantity is
\* zero (a cash-sized LIMIT or STOP order) yields zero per-share commission and
\* completes without a division fault, whatever the current position.
C27_ZeroQuantityGuard ==
    [][ZeroQuantityFill => CompletesAtZeroCommission]_vars

\* C27, on a position that is not flat: the accounting completes, the
\* commission is zero and the position is left as it was.
C27_GuardOnOpenPosition ==
    [][(ZeroQuantityFill /\ Held.position_qty # Zero) =>
        /\ CompletesAtZeroCommission
        /\ portfolio' = portfolio
        /\ Len(NewTrades) = 1]_vars

\* C27, where it fails: the SHORT STOP order sized by cash_amount was triggered
\* on a flat position and the average entry price divided by a quantity of zero
C27_Witness ==
    /\ pc = "raised" /\ error = "ZeroDivisionError"
    /\ orders[1].order_type = "STOP" /\ orders[1].side = "SHORT"
    /\ orders[1].qty = Zero /\ orders[1].cash_amount = I(330)
    /\ orders[1].status = "PENDING"
    /\ portfolio["X"].position_qty = Zero
    /\ balance = I(initial_balance)

\* C28 -- Symbol isolation: processing a bar of symbol X sets X's last mark to
\* the bar's close and changes position quantity and average entry price of X
\* only; the record of every other symbol is unchanged, every trade of the bar
\* is a trade of X, and an order on another symbol is not filled: the bar
\* leaves it as it is or cancels it as the OCO sibling of an order that fills.
C28_SymbolIsolation ==
    [][pc = "process_bar" =>
        /\ \A s \in DOMAIN portfolio \ {row.symbol} : portfolio'[s] = portfolio[s]
        /\ DOMAIN portfolio' = DOMAIN portfolio \cup {row.symbol}
        /\ portfolio'[row.symbol].last_price = row.close
        /\ \A k \in 1..Len(NewTrades) : NewTrades[k].symbol = row.symbol
        /\ \A id \in DOMAIN orders :
             orders[id].symbol # row.symbol =>
                \/ orders'[id] = orders[id]
                \/ /\ orders'[id] = [orders[id] EXCEPT !.status = "CANCELLED"]
                   /\ CancelledBySibling(id)]_vars

\* a bar of X has been processed while Y holds a short position marked at 120:
\* the order of X was filled on the bar and X is marked at the bar's close
C28_Witness ==
    /\ pc = "on_bar" /\ call = NoCall /\ row.symbol = "X"
    /\ "Y" \in DOMAIN portfolio
    /\ RLt(portfolio["Y"].position_qty, Zero) /\ portfolio["Y"].last_price = I(120)
    /\ portfolio["X"].last_price = row.close /\ row.close # I(120)
    /\ \E id \in DOMAIN orders :
         orders[id].symbol = "X" /\ orders[id].status = "FILLED" /\ orders[id].filled_at = row.time

\* the step is a call of register_asset for the symbol s
Registers(s) == call' # call /\ call'.op = "register_asset" /\ call'.symbols = <<s>>
\* the step is the one in which process_bar looks its symbol up and marks it
MarkStep == pc = "process_bar" /\ i = 0

\* C29 -- Lazy registration: a bar of a symbol that is not in the portfolio
\* registers a position of quantity 0 and average price 0 for it, with no
\* error; a bar of a registered symbol keeps the record it finds (quantity,
\* average price, fee rates) and so does register_asset, which adds the
\* record it is given only when the symbol is not registered.
C29_LazyRegistration ==
    [][/\ (MarkStep /\ row.symbol \notin DOMAIN portfolio) =>
            /\ DOMAIN portfolio' = DOMAIN portfolio \cup {row.symbol}
            /\ portfolio'[row.symbol].position_qty = Zero
            /\ portfolio'[row.symbol].avg_entry_price = Zero
            /\ error' = "" /\ pc' = "process_bar"
            /\ \A s \in DOMAIN portfolio : portfolio'[s] = portfolio[s]
       /\ (MarkStep /\ row.symbol \in DOMAIN portfolio) =>
            portfolio' = [portfolio EXCEPT ![row.symbol].last_price = row.close]
       /\ \A s \in Symbols :
            Registers(s) =>
                /\ \A t \in DOMAIN portfolio : portfolio'[t] = portfolio[t]
                /\ DOMAIN portfolio' = DOMAIN portfolio \cup {s}
                /\ s \notin DOMAIN portfolio => portfolio'[s] \in RegisterAssets
                /\ error' = ""]_vars

\* register_asset has just been called for X with a record holding 3 @ 50 at
\* fee rates 10 and 4, and X keeps the short position its fills gave it and
\* the fee rates 5 and 2 the engine was built with; Y was registered by its bar
C29_Witness ==
    /\ call.op = "register_asset" /\ call.symbols = <<"X">>
    /\ RLt(portfolio["X"].position_qty, Zero) \/ RGt(portfolio["X"].position_qty, Zero)
    /\ portfolio["X"].position_qty # I(3)
    /\ portfolio["X"].market_fee_bps = I(5) /\ portfolio["X"].limit_fee_bps = I(2)
    /\ "Y" \in DOMAIN portfolio /\ portfolio["Y"].market_fee_bps = Zero
    /\ portfolio["Y"].last_price = I(120)

\* run has gone through the whole bar sequence and returned
RunReturned == pc = "fetch" /\ Len(equity_curve) = MaxBars
\* the order carries a bracket directive
HasDirective(order) ==
    \/ Truthy(order.stop_price) \/ Truthy(order.stop_loss_pct)
    \/ Truthy(order.limit_price) \/ Truthy(order.limit_pct)

\* C30 -- Termination: run over a finite bar sequence returns, having called
\* process_bar and then the strategy callback once for each bar in sequence
\* order; every call of process_bar returns although fills append bracket
\* children to the collection its loop iterates: a fill adds at most two
\* orders, and the orders it adds carry no bracket directives, so their fills
\* add none.
C30_Termination ==
    /\ [][/\ pc' # pc =>
               \/ pc = "fetch" /\ pc' = "process_bar" /\ row'.time = row.time + 1
               \/ pc = "process_bar" /\ pc' = "on_bar" /\ row' = row
               \/ pc = "on_bar" /\ pc' = "fetch" /\ row' = row
          /\ pc' = pc => row' = row
          /\ Len(open_orders') # Len(open_orders) /\ pc = "process_bar" /\ ~SnapshotStep =>
               /\ FillStep /\ HasDirective(Current)
               /\ Len(open_orders') <= Len(open_orders) + 2
               /\ \A k \in (Len(open_orders) + 1)..Len(open_orders') :
                    ~HasDirective(orders'[open_orders'[k]])
          /\ (FillStep /\ ~HasDirective(Current)) => open_orders' = open_orders]_vars
    /\ (pc = "process_bar") ~> (pc = "on_bar")
    /\ (pc = "on_bar") ~> (pc = "fetch")
    /\ <>RunReturned

\* run has returned after its last bar, on which a bracket parent filled, its
\* two children were appended to the book under the loop, and the loop went on
\* to fill one of them and cancel the other
C30_Witness ==
    /\ RunReturned
    /\ \E p, a, b \in DOMAIN orders :
         /\ HasDirective(orders[p]) /\ orders[p].status = "FILLED" /\ orders[p].filled_at = MaxBars
         /\ a # b /\ orders[a].group_id = p /\ orders[b].group_id = p
         /\ orders[a].created_at = MaxBars /\ orders[b].created_at = MaxBars
         /\ orders[a].status = "FILLED" /\ orders[a].filled_at = MaxBars
         /\ orders[b].status = "CANCELLED"

\* an order the engine made as a bracket child: the strategy never submitted it
IsChild(heap, given, id) == id \in DOMAIN heap /\ id \notin given
\* the bracket children made on the bar being processed
SpawnedThisBar(heap, given) ==
    {id \in DOMAIN heap : IsChild(heap, given, id) /\ heap[id].created_at = row.time}

\* C31 -- Bracket children wait a bar: a bracket child spawned by a parent's
\* fill on bar t is not evaluated against bar t's open, high and low; through
\* every step of bar t's processing it is PENDING in the open-order
\* collection, and no child is ever FILLED on the bar that created it.
C31_ChildrenWaitABar ==
    [][/\ pc = "process_bar" =>
            \A id \in SpawnedThisBar(orders', submitted') :
                orders'[id].status = "PENDING" /\ InSeq(id, open_orders')
       /\ \A id \in DOMAIN orders' :
            (IsChild(orders', submitted', id) /\ orders'[id].status = "FILLED")
                => orders'[id].filled_at > orders'[id].created_at]_vars

\* the strategy is called back with a bar on which a parent without group_id
\* filled at the open of 100, its stop child at 95 was made and, the low being
\* 90, filled under the same loop
C31_Witness ==
    /\ pc = "on_bar"
    /\ \E p \in submitted, c \in DOMAIN orders :
         /\ orders[p].group_id = 0 /\ orders[p].status = "FILLED"
         /\ orders[p].filled_at = row.time /\ orders[p].fill_price = I(100)
         /\ IsChild(orders, submitted, c) /\ orders[c].group_id = p
         /\ orders[c].order_type = "STOP" /\ orders[c].price = I(95)
         /\ orders[c].created_at = row.time
         /\ orders[c].status = "FILLED" /\ orders[c].filled_at = row.time
         /\ orders[c].fill_price = I(95)

\* the orders the step makes
MadeNow == DOMAIN orders' \ DOMAIN orders

\* C32 -- A parent does not cancel its own brackets: the OCO cancellation that
\* follows a parent order's fill leaves the bracket children spawned by that
\* fill PENDING in the open-order collection, whether or not the parent
\* carries a group_id of its own.
C32_ParentSparesItsBrackets ==
    [][FillStep =>
         \A id \in MadeNow :
             orders'[id].status = "PENDING" /\ InSeq(id, open_orders')]_vars

\* a parent submitted with a group_id has filled, and the two children its fill
\* made, which carry that group_id, are CANCELED in the book before the loop
\* has examined them
C32_Witness ==
    /\ InLoop
    /\ \E p \in submitted :
         /\ orders[p].group_id = StrategyGroup /\ HasDirective(orders[p])
         /\ orders[p].status = "FILLED" /\ orders[p].filled_at = row.time
         /\ open_orders[i] \in SpawnedThisBar(orders, submitted)
         /\ \E a, b \in SpawnedThisBar(orders, submitted) :
              /\ orders[a].order_type = "STOP" /\ orders[b].order_type = "LIMIT"
              /\ orders[a].group_id = StrategyGroup /\ orders[b].group_id = StrategyGroup
              /\ orders[a].status = "CANCELLED" /\ orders[b].status = "CANCELLED"
              /\ orders[a].filled_at = 0 /\ orders[b].filled_at = 0

\* C32, the case the code handles: the fill of a parent without group_id
\* leaves the children it makes PENDING in the book
C32_UngroupedParent ==
    [][(FillStep /\ Current.group_id = 0) =>
         \A id \in MadeNow :
             orders'[id].status = "PENDING" /\ InSeq(id, open_orders')]_vars

\* the bar being processed yields a fill price for the order
Fillable(order) ==
    /\ order.status = "PENDING" /\ order.symbol = row.symbol
    /\ ~IsNone(_check_fill(order, row.open, row.high, row.low).price)
\* the place of an order in the open-order collection
PlaceOf(id) == CHOOSE k \in 1..Len(open_orders) : open_orders[k] = id
\* the LIMIT children made by the fill that made the STOP child `stop`
LimitSiblings(stop) ==
    {b \in DOMAIN orders :
        /\ IsChild(orders, submitted, b) /\ InSeq(b, open_orders)
        /\ orders[b].order_type = "LIMIT"
        /\ orders[b].group_id = orders[stop].group_id
        /\ orders[b].created_at = orders[stop].created_at}

\* C33 -- Evaluation order within a bar: process_bar examines the orders of the
\* open-order collection one by one in the order they were appended, orders
\* appended under the loop included, and only the order under examination can
\* fill; when it fills, every other PENDING order of its OCO group is CANCELED
\* in the same step, before the next order is examined, and an order that is
\* not PENDING when its turn comes is passed over; the stop child of a fill is
\* appended before the limit child, so when both children of one parent are
\* PENDING and fillable on the bar, the stop child fills and the limit child is
\* CANCELED without filling.
C33_EvaluationOrder ==
    [][InLoop =>
         /\ i' = i + 1
         /\ SubSeq(open_orders', 1, Len(open_orders)) = open_orders
         /\ \A id \in DOMAIN orders : FillsNow(id) => id = open_orders[i]
         /\ Fillable(Current) => FillsNow(open_orders[i])
         /\ Current.status # "PENDING" =>
              /\ orders' = orders /\ open_orders' = open_orders
              /\ fill_history' = fill_history /\ balance' = balance
         /\ (FillStep /\ Current.group_id # 0) =>
              \A j \in DOMAIN orders \ {open_orders[i]} :
                  (/\ InSeq(j, open_orders) /\ orders[j].status = "PENDING"
                   /\ orders[j].group_id = Current.group_id)
                      => orders'[j].status = "CANCELLED" /\ orders'[j].filled_at = 0
         /\ \A j \in DOMAIN orders :
              orders[j].status = "CANCELLED" => orders'[j] = orders[j]
         /\ \A a, b \in MadeNow :
              (orders'[a].order_type = "STOP" /\ orders'[b].order_type = "LIMIT")
                  => \E k, l \in 1..Len(open_orders') :
                        k < l /\ open_orders'[k] = a /\ open_orders'[l] = b
         /\ (/\ IsChild(orders, submitted, open_orders[i])
             /\ Current.order_type = "STOP" /\ Fillable(Current)) =>
              \A b \in LimitSiblings(open_orders[i]) :
                  Fillable(orders[b]) =>
                      /\ PlaceOf(b) > i
                      /\ FillsNow(open_orders[i])
                      /\ orders'[b].status = "CANCELLED" /\ orders'[b].filled_at = 0]_vars

\* the children of a parent filled at 110 rested on that bar; on the next bar,
\* whose range holds both 104.5 and 121, the stop child filled at the open of
\* 100 and the limit child was cancelled, and the loop has passed over it
C33_Witness ==
    /\ pc = "process_bar" /\ i = Len(open_orders) + 1
    /\ \E p \in submitted, a, b \in DOMAIN orders :
         /\ orders[p].status = "FILLED" /\ orders[p].fill_price = I(110)
         /\ orders[a].group_id = p /\ orders[b].group_id = p
         /\ orders[a].order_type = "STOP" /\ orders[a].price = R(209, 2)
         /\ orders[b].order_type = "LIMIT" /\ orders[b].price = I(121)
         /\ orders[a].created_at = orders[p].filled_at
         /\ orders[a].status = "FILLED" /\ orders[a].filled_at = orders[a].created_at + 1
         /\ orders[a].filled_at = row.time /\ orders[a].fill_price = I(100)
         /\ orders[b].status = "CANCELLED" /\ orders[b].filled_at = 0
         /\ \E k, l \in 1..Len(open_orders) :
              k < l /\ open_orders[k] = a /\ open_orders[l] = b

\* the signed quantity of a trade: + for LONG, - for SHORT
SignedQty(trade) == IF trade.side = "LONG" THEN trade.qty ELSE RNeg(trade.qty)
\* the sum of the signed quantities of the trades of symbol s in the history
NetTraded(history, s) ==
    SumOver([k \in 1..Len(history) |-> IF history[k].symbol = s THEN SignedQty(history[k]) ELSE Zero],
            1..Len(history))
\* the position the fill of this step would leave without the epsilon floor
Unsnapped ==
    IF FilledOrder.side = "LONG" THEN RAdd(Held.position_qty, FilledOrder.qty)
    ELSE RSub(Held.position_qty, FilledOrder.qty)
\* the fill of this step moves the position by the order's signed quantity, or
\* leaves it at 0 where that would be a residual below q_epsilon
FillDelta ==
    (FillStep /\ FilledOrder.side \in {"LONG", "SHORT"}) =>
        \/ portfolio'[FilledOrder.symbol].position_qty = Unsnapped
        \/ /\ BelowEps(Unsnapped) /\ Reducing
           /\ portfolio'[FilledOrder.symbol].position_qty = Zero

\* C34 -- Position conservation: every LONG fill of quantity q moves the
\* symbol's signed position by +q and every SHORT fill by -q, whether it
\* increases, reduces or flips the position, and its trades carry the order's
\* side and quantities that add up to q; the position of every other symbol is
\* unchanged; hence, for symbols that started flat, the position quantity of
\* each symbol equals the sum of its LONG trade quantities minus the sum of its
\* SHORT trade quantities in the fill history.
C34_PositionConservation ==
    [][/\ FillDelta
       /\ FillStep =>
            /\ portfolio'[FilledOrder.symbol].position_qty = Unsnapped
            /\ SumOver([k \in 1..Len(NewTrades) |-> NewTrades[k].qty], 1..Len(NewTrades))
                 = FilledOrder.qty
            /\ \A k \in 1..Len(NewTrades) :
                 NewTrades[k].side = FilledOrder.side /\ NewTrades[k].symbol = FilledOrder.symbol
       /\ ~FillStep =>
            \A s \in DOMAIN portfolio : portfolio'[s].position_qty = portfolio[s].position_qty
       /\ \A s \in DOMAIN portfolio' :
            portfolio'[s].position_qty = NetTraded(fill_history', s)]_vars

\* C34 on positions that do not start flat and with fills that leave a
\* residual below q_epsilon: the position moves by the signed quantity or is
\* floored to 0
C34_FillDeltaWithFloor == [][FillDelta]_vars

\* from flat, a purchase of 1 and a sale of 2 that closes it and flips the
\* position to -1: three trades whose signed quantities add up to the position
C34_Witness ==
    /\ Len(fill_history) = 3
    /\ [k \in 1..3 |-> SignedQty(fill_history[k])] = <<I(1), I(-1), I(-1)>>
    /\ fill_history[2].order_id = fill_history[3].order_id
    /\ portfolio["Y"].position_qty = I(-1)
    /\ NetTraded(fill_history, "Y") = I(-1)

\* the cash and the positions at their average entry prices
BookValue(cash, folio) ==
    RAdd(cash, SumOver([s \in DOMAIN folio |-> RMul(folio[s].position_qty, folio[s].avg_entry_price)],
                       DOMAIN folio))
\* the realized P&L less the commissions of the trades of a history
NetRealized(history) ==
    SumOver([k \in 1..Len(history) |-> RSub(history[k].pnl, history[k].commission)],
            1..Len(history))

\* C35 -- Accounting identity: on an engine that started with no positions, in
\* every state, cash balance + the sum over symbols of signed position
\* quantity x average entry price equals initial balance + the sum of realized
\* P&L over all trades - the sum of commissions over all trades.
C35_AccountingIdentity ==
    BookValue(balance, portfolio) = RAdd(I(initial_balance), NetRealized(fill_history))

\* C35 from any starting positions: every step changes cash + positions at
\* cost by the realized P&L less the commissions of the trades it appends
C35_LedgerStep ==
    [][RSub(BookValue(balance', portfolio'), BookValue(balance, portfolio))
          = NetRealized(NewTrades)]_vars

\* bought 1 X at 100 and sold 2 at 110 with market commission of 5 bps: one
\* closing trade with P&L 10, one opening trade, short 1 at 110, and cash and
\* position at cost add up to 10000 + 10 - 0.05 - 0.11
C35_Witness ==
    /\ Len(fill_history) = 3
    /\ fill_history[1].side = "LONG" /\ fill_history[1].price = I(100)
    /\ fill_history[1].commission = R(1, 20)
    /\ fill_history[2].side = "SHORT" /\ fill_history[2].pnl = I(10)
    /\ fill_history[2].commission = R(11, 200) /\ fill_history[3].commission = R(11, 200)
    /\ portfolio["X"].position_qty = I(-1) /\ portfolio["X"].avg_entry_price = I(110)
    /\ balance = R(1011984, 100)
    /\ BookValue(balance, portfolio) = R(1000984, 100)

\* the row is a well-formed bar: low <= open <= high
WellFormed(bar) == RLe(bar.low, bar.open) /\ RLe(bar.open, bar.high)
\* price p lies within the bar's range
WithinBar(p, bar) == RLe(bar.low, p) /\ RLe(p, bar.high)
\* price p is no worse than the limit of a LIMIT order and no better than the
\* trigger of a STOP order
HonoursPrice(order, p) ==
    /\ (order.order_type = "LIMIT" /\ order.side = "LONG") => RLe(p, order.price)
    /\ (order.order_type = "LIMIT" /\ order.side = "SHORT") => RGe(p, order.price)
    /\ (order.order_type = "STOP" /\ order.side = "SHORT") => RLe(p, order.price)
    /\ (order.order_type = "STOP" /\ order.side = "LONG") => RGe(p, order.price)

\* C36 -- Fill price bounds: for every bar with low <= open <= high, a fill
\* price returned by _check_fill lies within [low, high]; for a LIMIT order it
\* is at or below the limit price on a LONG order and at or above it on a SHORT
\* order; for a STOP order it is at or below the trigger price on a SHORT order
\* and at or above it on a LONG order.
C36_FillPriceBounds ==
    (/\ call.op = "_check_fill" /\ ~IsNone(call.ret) /\ WellFormed(row)) =>
        /\ WithinBar(call.ret, row)
        /\ HonoursPrice(orders[open_orders[i]], call.ret)

\* C36 on the fills of a replay: the fill price recorded on an order is within
\* the range of the bar that filled it and honours the order's price
C36_FillsWithinBar ==
    [][FillStep =>
         /\ WellFormed(row)
         /\ WithinBar(FilledOrder.fill_price, row)
         /\ HonoursPrice(FilledOrder, FilledOrder.fill_price)]_vars

\* a SHORT STOP at 105 on the bar (100, 110, 90): the open has gapped below the
\* trigger and the fill price is the open, below the trigger and within the bar
C36_Witness ==
    /\ call.op = "_check_fill" /\ call.ret = I(100)
    /\ row.open = I(100) /\ row.high = I(110) /\ row.low = I(90)
    /\ orders[open_orders[i]].order_type = "STOP" /\ orders[open_orders[i]].side = "SHORT"
    /\ orders[open_orders[i]].price = I(105)

\* the step is a call of flatten that repeats the strategy's latest call: same
\* callback, same symbols, nothing called in between
RepeatedFlatten == FlattenStep /\ call.op = "flatten" /\ call'.symbols = call.symbols
\* the content of the open-order collection: the orders in their places, their
\* ids left out
Content(book, heap) == [k \in 1..Len(book) |-> [heap[book[k]] EXCEPT !.id = 0]]
\* the PENDING closing orders of symbol s in a book
ClosingOrders(book, heap, s) ==
    {id \in DOMAIN heap :
        /\ InSeq(id, book) /\ heap[id].symbol = s /\ heap[id].strategy_name = "flatten"
        /\ heap[id].status = "PENDING" /\ heap[id].order_type = "MARKET"}

\* C37 -- Flatten is idempotent before the next bar: a call of flatten that
\* repeats the call just made, with the same symbols, leaves the open-order
\* collection with the content it had: the closing orders of the first call
\* are CANCELED and removed, and for each targeted symbol with a non-zero
\* position exactly one order is in the book, a PENDING closing MARKET order on
\* the side opposite the position for its absolute quantity, and for a
\* targeted symbol with no position none; so every fill of a closing order
\* leaves the symbol's position at 0.
C37_FlattenIdempotent ==
    [][/\ RepeatedFlatten =>
            /\ Content(open_orders', orders') = Content(open_orders, orders)
            /\ \A s \in Targeted : \A id \in ClosingOrders(open_orders, orders, s) :
                 orders'[id].status = "CANCELLED" /\ ~InSeq(id, open_orders')
            /\ \A s \in ToClose :
                 /\ Cardinality(ClosingOrders(open_orders', orders', s)) = 1
                 /\ \A id \in DOMAIN orders' :
                      (InSeq(id, open_orders') /\ orders'[id].symbol = s) =>
                          /\ id \in ClosingOrders(open_orders', orders', s)
                          /\ id \notin DOMAIN orders
                          /\ orders'[id].qty = RAbs(portfolio[s].position_qty)
                          /\ orders'[id].side =
                               IF RGt(portfolio[s].position_qty, Zero) THEN "SHORT" ELSE "LONG"
            /\ \A s \in Targeted \ ToClose :
                 \A id \in DOMAIN orders' : InSeq(id, open_orders') => orders'[id].symbol # s
            /\ balance' = balance /\ portfolio' = portfolio /\ fill_history' = fill_history
       /\ (FillStep /\ Current.strategy_name = "flatten") =>
            /\ portfolio'[Current.symbol].position_qty = Zero
            /\ Len(NewTrades) = 1]_vars

\* flatten() was called twice in one callback with a long position of 3 on X
\* and a short position of 2 on Y: the two closing orders of the first call
\* are CANCELED, the two of the second call have filled on the next bars of
\* their symbols, and both positions are 0
C37_Witness ==
    /\ \E a, b, c, d \in DOMAIN orders :
         /\ orders[a].symbol = "X" /\ orders[c].symbol = "X" /\ a < c
         /\ orders[b].symbol = "Y" /\ orders[d].symbol = "Y" /\ b < d
         /\ \A id \in {a, b, c, d} : orders[id].strategy_name = "flatten"
         /\ orders[a].created_at = orders[c].created_at
         /\ orders[b].created_at = orders[a].created_at
         /\ orders[d].created_at = orders[a].created_at
         /\ orders[a].status = "CANCELLED" /\ orders[b].status = "CANCELLED"
         /\ orders[c].status = "FILLED" /\ orders[c].side = "SHORT" /\ orders[c].qty = I(3)
         /\ orders[d].status = "FILLED" /\ orders[d].side = "LONG" /\ orders[d].qty = I(2)
    /\ portfolio["X"].position_qty = Zero /\ portfolio["Y"].position_qty = Zero

============================================================================
